---- MODULE Spec2Model ----
(***************************************************************************)
(* The blog-automation pipeline of wordpress-automation: the run state     *)
(* (models/state.py), the collected-content aggregate                      *)
(* (models/content_models.py), the search gateway                          *)
(* (utils/perplexity_client.py), the two stages (nodes/*.py) and the       *)
(* driver with its workflow graph (main.py).                               *)
(*                                                                         *)
(* Modelling conventions                                                   *)
(*  - an Optional value is a sequence of length at most one: <<>> is       *)
(*    Python's None, <<x>> is x;                                           *)
(*  - a Python object is a record; reading an attribute that the class     *)
(*    does not declare raises AttributeError (HasAttr);                    *)
(*  - credibility scores are integers in tenths (6 is 0.6);                *)
(*  - a stage works on a private copy of the run state: the workflow       *)
(*    engine builds the BlogState it hands to a node from its channels, so *)
(*    what a node does to its state reaches the run only through the       *)
(*    partial update the node returns;                                     *)
(*  - status_writes is a history field: the statuses assigned to a state   *)
(*    object during the current step, in order. statusLog collects them    *)
(*    over the run. progress_writes is the same for the progress values a  *)
(*    stage has set since it was entered.                                  *)
(***************************************************************************)
EXTENDS Integers, Sequences, FiniteSets, TLC

VARIABLES
    pc,              \* position of the run: ready, multi_search, returned, finalize, done
    next,            \* node the workflow engine runs next, or END
    run,             \* the run state held by the driver (BlogState)
    node,            \* <<s>>: private BlogState of the node that is executing or has returned
    update,          \* <<u>>: the partial update the node returned, not yet merged
    stage,           \* name of the node entered last
    entry,           \* <<s>>: the run state as it was when that node was entered
    queries,         \* the queries multi_search dispatched
    tasks,           \* per query: "pending", "ok" (endpoint answered) or "error"
    search_results,  \* <<m>>: the mapping multi_search returned
    statusLog,       \* every status assigned during the run, in order
    executed,        \* per node: how many times it was invoked
    credential,      \* whether PERPLEXITY_API_KEY is available
    llm_response,    \* what the endpoint answers to the generation call
    content,         \* a CollectedContent under a sequence of add_source calls
    lastSource,      \* <<s>>: the source of the last add_source call
    prevContent,     \* content before the last add_source call
    completed,       \* the dispatched queries in the order they completed
    article,         \* a BlogArticle under a sequence of method calls
    history,         \* per method call on article: its name and the article after it
    call,            \* a function called on its own: its name and arguments
    result           \* <<r>>: what that call returned

vars == <<pc, next, run, node, update, stage, entry, queries, tasks,
          search_results, statusLog, executed, credential, llm_response,
          content, lastSource, prevContent, completed, article, history,
          call, result>>

\* the variables of the functions and objects exercised on their own
fnVars == <<article, history, call, result>>

----------------------------------------------------------------------------
(* Bounds *)

MaxExec == 2          \* invocations of one node the model follows
MaxQueries == 3       \* longest query list given to multi_search on its own
MaxInsertions == 3    \* longest sequence of add_source calls
MaxInitErrors == 1    \* errors already present when a node is invoked on its own
MaxCalls == 5         \* longest sequence of method calls on one article
MaxTrustedHits == 3   \* most trusted-domain entries one url holds
MaxLines == 3         \* most lines of a text given to create_blog_article_from_content
MaxSources == 2       \* most sources of an aggregate given to enhance_article_metadata

----------------------------------------------------------------------------
(* models/state.py: WorkflowStatus *)

PENDING == "pending"
COLLECTING == "collecting"
WRITING == "writing"
REVIEWING == "reviewing"
COMPLETED == "completed"
FAILED == "failed"

WorkflowStatus == {PENDING, COLLECTING, WRITING, REVIEWING, COMPLETED, FAILED}

(* models/content_models.py: ContentType *)

BASIC_CONCEPT == "basic_concept"
LATEST_TREND == "latest_trend"
EXPERT_OPINION == "expert_opinion"

ContentType == {BASIC_CONCEPT, LATEST_TREND, EXPERT_OPINION}

END == "__end__"

Min(a, b) == IF a < b THEN a ELSE b
Max(a, b) == IF a > b THEN a ELSE b

\* getattr on a model object succeeds only for a declared field
HasAttr(obj, name) == name \in DOMAIN obj

----------------------------------------------------------------------------
(* models/content_models.py: CollectedContent *)

NewCollectedContent(topic) ==
    [topic |-> topic,
     basic_concepts |-> <<>>,
     latest_trends |-> <<>>,
     expert_opinions |-> <<>>,
     collection_timestamp |-> "now",
     total_sources |-> 0]

\* add_source that appends but leaves the stored total as it was
add_source_stale_total(cc, source) ==
    IF source.content_type = BASIC_CONCEPT
       THEN [cc EXCEPT !.basic_concepts = Append(@, source)]
    ELSE IF source.content_type = LATEST_TREND
       THEN [cc EXCEPT !.latest_trends = Append(@, source)]
    ELSE IF source.content_type = EXPERT_OPINION
       THEN [cc EXCEPT !.expert_opinions = Append(@, source)]
    ELSE cc

add_source(cc, source) ==
    LET c1 == IF source.content_type = BASIC_CONCEPT
                 THEN [cc EXCEPT !.basic_concepts = Append(@, source)]
              ELSE IF source.content_type = LATEST_TREND
                 THEN [cc EXCEPT !.latest_trends = Append(@, source)]
              ELSE IF source.content_type = EXPERT_OPINION
                 THEN [cc EXCEPT !.expert_opinions = Append(@, source)]
              ELSE cc
    IN  [c1 EXCEPT !.total_sources =
            Len(c1.basic_concepts \o c1.latest_trends \o c1.expert_opinions)]

get_all_sources(cc) ==
    cc.basic_concepts \o cc.latest_trends \o cc.expert_opinions

RECURSIVE AddAll(_, _)
\* for source in sources: collected_content.add_source(source)
\* (the singleton sets bind each intermediate value once)
AddAll(cc, sources) ==
    IF sources = <<>> THEN cc
    ELSE CHOOSE r \in {AddAll(c, rest) : c \in {add_source(cc, Head(sources))},
                                         rest \in {Tail(sources)}} : TRUE

----------------------------------------------------------------------------
(* Python str *)

\* A str is the sequence of its lines (what str.split('\n') gives: "" is one
\* empty line), a line is the sequence of its runs, and Run(c, n) is n copies
\* of the character c. The characters the code tells apart: "#" and " ",
\* the ASCII letters "a" and "b", the digit "7", and the Hangul syllables
\* "GA" and "NA". Adjacent runs of one line differ in their character.
\* A run whose c is a whole word stands for that word once, n being its
\* length: the words of HangulLiterals are written in Hangul and named here
\* by their romanisation, "AI" and "IT" are written in ASCII letters.
Run(c, n) == [c |-> c, n |-> n]

HangulLiterals ==
    {"ingongjineung", "programming", "gaebal", "coding", "software", "gisul",
     "business", "gyeongyeong", "marketing", "startup", "changeop", "tuja",
     "gyeongje", "geongang", "undong", "yori", "yeohaeng", "chwimi",
     "saenghwal", "fashion", "gyoyuk", "hakseup", "gongbu", "gangui", "sueop",
     "gyosa", "haksaeng", "game", "yeonghwa", "eumak", "drama", "yesul",
     "munhwa", "hanuiwon", "uiryo", "chiryo"}

\* str.lower() of a word; Hangul has no case
Lower(c) == IF c = "AI" THEN "ai" ELSE IF c = "IT" THEN "it" ELSE c

Str(line) == <<line>>

EmptyStr == Str(<<>>)

\* the character classes of the regular expressions and of str.strip
IsHangul(c) == c \in {"GA", "NA"} \cup HangulLiterals
IsAsciiLetter(c) == c \in {"a", "b", "ai", "AI", "it", "IT"}
IsWordChar(c) == IsHangul(c) \/ IsAsciiLetter(c) \/ c = "7"
IsSpace(c) == c = " "

\* one line followed by another, without a line break between them
JoinLines(l1, l2) ==
    IF l1 = <<>> THEN l2
    ELSE IF l2 = <<>> THEN l1
    ELSE IF l1[Len(l1)].c = l2[1].c
         THEN SubSeq(l1, 1, Len(l1) - 1)
              \o <<Run(l2[1].c, l1[Len(l1)].n + l2[1].n)>> \o Tail(l2)
         ELSE l1 \o l2

\* a + b
StrConcat(a, b) ==
    SubSeq(a, 1, Len(a) - 1) \o <<JoinLines(a[Len(a)], b[1])>> \o Tail(b)

\* line.startswith(prefix), for a prefix of one line
StartsWith(line, prefix) ==
    /\ Len(line) >= Len(prefix)
    /\ \A i \in 1..Len(prefix) :
           /\ line[i].c = prefix[i].c
           /\ IF i < Len(prefix) THEN line[i].n = prefix[i].n
              ELSE line[i].n >= prefix[i].n

RECURSIVE LineDrop(_, _)
\* line[k:]
LineDrop(line, k) ==
    IF k = 0 \/ line = <<>> THEN line
    ELSE IF line[1].n <= k THEN LineDrop(Tail(line), k - line[1].n)
    ELSE <<Run(line[1].c, line[1].n - k)>> \o Tail(line)

\* line.strip(), for a str of one line
LineStrip(line) ==
    LET from == IF line # <<>> /\ IsSpace(line[1].c) THEN 2 ELSE 1
        to == IF line # <<>> /\ IsSpace(line[Len(line)].c)
              THEN Len(line) - 1 ELSE Len(line)
    IN  SubSeq(line, from, to)

IsBlank(line) == \A i \in 1..Len(line) : IsSpace(line[i].c)

RECURSIVE DropBlankHead(_)
DropBlankHead(lines) ==
    IF lines = <<>> THEN <<>>
    ELSE IF IsBlank(lines[1]) THEN DropBlankHead(Tail(lines))
    ELSE lines

RECURSIVE DropBlankTail(_)
DropBlankTail(lines) ==
    IF lines = <<>> THEN <<>>
    ELSE IF IsBlank(lines[Len(lines)])
         THEN DropBlankTail(SubSeq(lines, 1, Len(lines) - 1))
    ELSE lines

\* s.strip(): spaces and line breaks go from both ends
StrStrip(s) ==
    LET kept == DropBlankTail(DropBlankHead(s))
        lead(l) == IF IsSpace(l[1].c) THEN Tail(l) ELSE l
        trail(l) == IF IsSpace(l[Len(l)].c) THEN SubSeq(l, 1, Len(l) - 1) ELSE l
    IN  IF kept = <<>> THEN EmptyStr
        ELSE [i \in 1..Len(kept) |->
                 IF i = 1 /\ i = Len(kept) THEN trail(lead(kept[i]))
                 ELSE IF i = 1 THEN lead(kept[i])
                 ELSE IF i = Len(kept) THEN trail(kept[i])
                 ELSE kept[i]]

\* seq[:k]
Slice(seq, k) == SubSeq(seq, 1, Min(k, Len(seq)))

RECURSIVE LineLen(_)
LineLen(line) ==
    IF line = <<>> THEN 0 ELSE line[1].n + LineLen(Tail(line))

RECURSIVE StrLen(_)
\* len(s): the characters of the lines and the line breaks between them
StrLen(s) ==
    IF Len(s) = 1 THEN LineLen(s[1])
    ELSE LineLen(s[1]) + 1 + StrLen(Tail(s))

RECURSIVE LineTake(_, _)
\* line[:k]
LineTake(line, k) ==
    IF k = 0 \/ line = <<>> THEN <<>>
    ELSE IF line[1].n <= k THEN <<line[1]>> \o LineTake(Tail(line), k - line[1].n)
    ELSE <<Run(line[1].c, k)>>

RECURSIVE StrTake(_, _)
\* s[:k]; a line break is one character
StrTake(s, k) ==
    LET width == LineLen(s[1])
    IN  IF Len(s) = 1 \/ width >= k THEN <<LineTake(s[1], k)>>
        ELSE <<s[1]>> \o StrTake(Tail(s), k - width - 1)

RECURSIVE HangulInLine(_)
HangulInLine(line) ==
    IF line = <<>> THEN 0
    ELSE (IF IsHangul(line[1].c) THEN line[1].n ELSE 0) + HangulInLine(Tail(line))

RECURSIVE korean_chars(_)
\* len(re.findall(r'[가-힣]', s))
korean_chars(s) ==
    IF s = <<>> THEN 0 ELSE HangulInLine(s[1]) + korean_chars(Tail(s))

RECURSIVE WordsFrom(_, _, _)
\* The matches of \b[a-zA-Z]+\b in a line from run i on. A match is a
\* maximal stretch of \w characters made of ASCII letters only; open is ""
\* outside such a stretch, "letters" inside one that has held only ASCII
\* letters, and "mixed" inside one that holds another \w character.
WordsFrom(line, i, open) ==
    IF i > Len(line) THEN (IF open = "letters" THEN 1 ELSE 0)
    ELSE IF ~IsWordChar(line[i].c)
         THEN (IF open = "letters" THEN 1 ELSE 0) + WordsFrom(line, i + 1, "")
    ELSE IF IsAsciiLetter(line[i].c) /\ open # "mixed"
         THEN WordsFrom(line, i + 1, "letters")
    ELSE WordsFrom(line, i + 1, "mixed")

RECURSIVE english_words(_)
\* len(re.findall(r'\b[a-zA-Z]+\b', s)); a line break is not a \w character
english_words(s) ==
    IF s = <<>> THEN 0 ELSE WordsFrom(s[1], 1, "") + english_words(Tail(s))

----------------------------------------------------------------------------
(* models/content_models.py: BlogSection and BlogArticle *)

ReadRate == 300           \* self.word_count // 300
DefaultReadTime == 5      \* estimated_read_time: int = Field(default=5)

\* BlogSection(title, content, section_type, image_placeholder=None)
BlogSection(title, text, section_type, image_placeholder) ==
    [title |-> title, content |-> text, section_type |-> section_type,
     image_placeholder |-> image_placeholder]

\* BlogArticle(title, content, sections, meta_tags, keywords, category),
\* the other fields at their defaults
BlogArticle(title, text, sections, meta_tags, keywords, category) ==
    [title |-> title,
     content |-> text,
     sections |-> sections,
     meta_tags |-> meta_tags,
     keywords |-> keywords,
     category |-> category,
     estimated_read_time |-> DefaultReadTime,
     image_placeholders |-> <<>>,
     word_count |-> 0]

\* f"\n\n## {section.title}\n\n{section.content}"
SectionMarkdown(section) ==
    StrConcat(StrConcat(StrConcat(
        <<<<>>, <<>>, <<Run("#", 2), Run(" ", 1)>>>>, section.title),
        <<<<>>, <<>>, <<>>>>), section.content)

add_section(a, section) ==
    [a EXCEPT !.sections = Append(@, section),
              !.content = StrConcat(@, SectionMarkdown(section)),
              !.image_placeholders =
                  IF section.image_placeholder # <<>>
                  THEN Append(@, section.image_placeholder[1]) ELSE @]

\* calculate_word_count that adds the count to the stored one
calculate_word_count_accumulating(a) ==
    [a EXCEPT !.word_count = @ + korean_chars(a.content) + english_words(a.content)]

calculate_word_count(a) ==
    [a EXCEPT !.word_count = korean_chars(a.content) + english_words(a.content)]

estimate_read_time(a) ==
    LET a1 == IF a.word_count = 0 THEN calculate_word_count(a) ELSE a
    IN  [a1 EXCEPT !.estimated_read_time = Max(1, a1.word_count \div ReadRate)]

----------------------------------------------------------------------------
(* models/state.py: BlogState *)

NewBlogState(topic) ==
    [topic |-> topic,
     collected_content |-> <<>>,
     generated_article |-> <<>>,
     status |-> PENDING,
     current_step |-> "",
     progress_percentage |-> 0,
     errors |-> <<>>,
     completed_at |-> <<>>,
     node_outputs |-> {},
     status_writes |-> <<>>,
     progress_writes |-> <<>>]

add_error(s, error_message) ==
    [s EXCEPT !.errors = Append(@, [timestamped |-> TRUE, message |-> error_message]),
              !.status = FAILED,
              !.status_writes = Append(@, FAILED)]

\* update_progress that stores its argument as it is
update_progress_unclamped(s, step, percentage) ==
    [s EXCEPT !.current_step = step,
              !.progress_percentage = percentage,
              !.progress_writes = Append(@, percentage)]

update_progress(s, step, percentage) ==
    [s EXCEPT !.current_step = step,
              !.progress_percentage = Min(100, Max(0, percentage)),
              !.progress_writes = Append(@, Min(100, Max(0, percentage)))]

\* set_status that records the step and loses the status
set_status_lost(s, status, step) ==
    [s EXCEPT !.current_step = IF step # "" THEN step ELSE @]

set_status(s, status, step) ==
    [s EXCEPT !.status = status,
              !.current_step = IF step # "" THEN step ELSE @,
              !.status_writes = Append(@, status)]

----------------------------------------------------------------------------
(* utils/perplexity_client.py: the search gateway *)

SearchSourceCap == 3      \* range(min(max_results, 3))
CredBase == 5             \* score = 0.5
CredTrusted == 2          \* score += 0.2
CredTitle == 1            \* score += 0.1
CredRecency == 1          \* score += 0.1
CredMax == 10             \* min(1.0, score)
MinHighQuality == 3        \* len(high_quality_sources) < 3
HighQuality == 6          \* credibility_score >= 0.6

\* A topic is a string; the model keeps what the code reads of it: whether it
\* holds one of the quality-signal substrings of _calculate_credibility;
\* words is the set of the category and keyword words of
\* nodes/blog_writing.py that the topic holds (named in Latin letters).
Topics == {[name |-> "coffee brewing", signal |-> FALSE, words |-> {}],
           [name |-> "coffee guide", signal |-> TRUE, words |-> {}]}

\* f"{topic} <suffix>": the suffix of the expert query holds two signal words
QueryText(topic, suffix) ==
    [topic |-> topic.name, suffix |-> suffix,
     signal |-> topic.signal \/ suffix = "expert analysis opinion review"]

\* create_search_queries that asks every query for three results
create_search_queries_uniform(topic) ==
    << [query |-> QueryText(topic, "basic concept definition"),
        content_type |-> BASIC_CONCEPT, max_results |-> 3],
       [query |-> QueryText(topic, "2024 latest trend news"),
        content_type |-> LATEST_TREND, max_results |-> 3],
       [query |-> QueryText(topic, "expert analysis opinion review"),
        content_type |-> EXPERT_OPINION, max_results |-> 3] >>

create_search_queries(topic) ==
    << [query |-> QueryText(topic, "basic concept definition"),
        content_type |-> BASIC_CONCEPT, max_results |-> 3],
       [query |-> QueryText(topic, "2024 latest trend news"),
        content_type |-> LATEST_TREND, max_results |-> 4],
       [query |-> QueryText(topic, "expert analysis opinion review"),
        content_type |-> EXPERT_OPINION, max_results |-> 3] >>

\* stubs for as many results as were asked for
SearchStubs_uncapped(q, max_results) ==
    [i \in 1..max_results |->
        [url |-> i, trusted_hits |-> 0, title |-> [query |-> q, n |-> i],
         title_long |-> TRUE, title_signal |-> q.signal]]

\* The source stubs search builds from a successful answer: url
\* https://example.com/source_i (no trusted domain in it), title
\* "'<query>' ... i" (longer than 10 characters, holding the query text).
SearchStubs(q, max_results) ==
    [i \in 1..Min(max_results, SearchSourceCap) |->
        [url |-> i, trusted_hits |-> 0, title |-> [query |-> q, n |-> i],
         title_long |-> TRUE, title_signal |-> q.signal]]

\* search that posts a second time when the first call failed
search_retrying(q, max_results, outcome) ==
    IF outcome = "ok"
    THEN [raised |-> FALSE, error |-> "", posts |-> 1,
          sources |-> SearchStubs(q, max_results)]
    ELSE [raised |-> TRUE, error |-> outcome, posts |-> 2, sources |-> <<>>]

\* search: one client.post to the endpoint; an answer gives the stubs, and a
\* transport error or a non-success status (raise_for_status) is logged and
\* raised again to the caller. posts counts the client.post calls made.
search(q, max_results, outcome) ==
    IF outcome = "ok"
    THEN [raised |-> FALSE, error |-> "", posts |-> 1,
          sources |-> SearchStubs(q, max_results)]
    ELSE [raised |-> TRUE, error |-> outcome, posts |-> 1, sources |-> <<>>]

\* _calculate_credibility that adds the bonus for every entry that matches
_calculate_credibility_every_match(stub) ==
    LET s1 == CredBase + stub.trusted_hits * CredTrusted
        s2 == s1 + (IF stub.title_long /\ stub.title_signal THEN CredTitle ELSE 0)
        s3 == s2 + CredRecency
    IN  Min(CredMax, s3)

\* a score without the bonus that every source is given
_calculate_credibility_no_recency(stub) ==
    LET s1 == CredBase + (IF stub.trusted_hits > 0 THEN CredTrusted ELSE 0)
        s2 == s1 + (IF stub.title_long /\ stub.title_signal THEN CredTitle ELSE 0)
    IN  Min(CredMax, s2)

\* trusted_hits is the number of entries of trusted_domains that the url
\* holds: the loop adds the bonus at the first one and breaks
_calculate_credibility(stub) ==
    LET s1 == CredBase + (IF stub.trusted_hits > 0 THEN CredTrusted ELSE 0)
        s2 == s1 + (IF stub.title_long /\ stub.title_signal THEN CredTitle ELSE 0)
        s3 == s2 + CredRecency
    IN  Min(CredMax, s3)

\* _search_with_type: the task of one query; every exception is swallowed
_search_with_type(sq, outcome) ==
    LET response == search(sq.query, sq.max_results, outcome)
    IN  IF response.raised
        THEN [exception |-> FALSE, sources |-> <<>>]
        ELSE [exception |-> FALSE,
              sources |-> [i \in 1..Len(response.sources) |->
                  [url |-> response.sources[i].url,
                   title |-> response.sources[i].title,
                   credibility_score |-> _calculate_credibility(response.sources[i]),
                   content_type |-> sq.content_type]]]

EmptyResults == [t \in ContentType |-> <<>>]

RECURSIVE CollectResults_prepending(_, _, _, _)
\* a result loop that puts each query's sources before the earlier ones
CollectResults_prepending(qs, gathered, i, results) ==
    IF i > Len(gathered) THEN results
    ELSE IF gathered[i].exception
         THEN CollectResults_prepending(qs, gathered, i + 1, results)
         ELSE CollectResults_prepending(qs, gathered, i + 1,
                  IF gathered[i].sources # <<>>
                  THEN [results EXCEPT ![qs[i].content_type] = gathered[i].sources \o @]
                  ELSE results)

RECURSIVE CollectResults(_, _, _, _)
\* the loop of multi_search over the gathered results, from index i on
CollectResults(qs, gathered, i, results) ==
    IF i > Len(gathered) THEN results
    ELSE IF gathered[i].exception
         THEN CollectResults(qs, gathered, i + 1, results)
         ELSE CollectResults(qs, gathered, i + 1,
                  IF gathered[i].sources # <<>>
                  THEN [results EXCEPT ![qs[i].content_type] = @ \o gathered[i].sources]
                  ELSE results)

\* multi_search that gives up all results as soon as one query failed
multi_search_all_or_nothing(qs, outcomes) ==
    LET gathered == [i \in 1..Len(qs) |-> _search_with_type(qs[i], outcomes[i])]
    IN  IF \E i \in 1..Len(qs) : outcomes[i] = "error"
        THEN [raised |-> FALSE, results |-> EmptyResults]
        ELSE [raised |-> FALSE,
              results |-> CollectResults(qs, gathered, 1, EmptyResults)]

\* multi_search once asyncio.gather has returned: outcomes[i] is how the
\* endpoint treated query i
multi_search(qs, outcomes) ==
    LET gathered == [i \in 1..Len(qs) |-> _search_with_type(qs[i], outcomes[i])]
    IN  [raised |-> FALSE,
         results |-> CollectResults(qs, gathered, 1, EmptyResults)]

----------------------------------------------------------------------------
(* nodes/information_collection.py and nodes/blog_writing.py: the stages *)

\* the except clause of a node: add_error on the node's state, and an update
\* that carries the status and the node's error list
NodeExcept(s, message) ==
    LET s1 == add_error(s, message)
    IN  [state |-> s1, update |-> [status |-> FAILED, errors |-> s1.errors]]

\* get_perplexity_client: the constructor raises ValueError without a key
get_perplexity_client(has_key) == [raised |-> ~has_key]

\* information_collection_node up to its await of multi_search; update is
\* <<>> while the node is suspended there
information_collection_begin(s, has_key) ==
    LET s1 == update_progress(
                  set_status(s, COLLECTING, "collecting through the search API"),
                  "collecting", 10)
        failed == NodeExcept(s1, "collection: exception")
    IN  IF get_perplexity_client(has_key).raised
        THEN [awaiting |-> FALSE, state |-> failed.state,
              update |-> <<failed.update>>, search_queries |-> <<>>]
        ELSE [awaiting |-> TRUE,
              state |-> update_progress(s1, "queries created", 20),
              update |-> <<>>,
              search_queries |-> create_search_queries(s.topic)]

\* information_collection_node from the return of multi_search on
\* [s for s in collected_content.get_all_sources() if s.credibility_score >= 0.6]
high_quality_sources(cc) ==
    SelectSeq(get_all_sources(cc),
              LAMBDA src : src.credibility_score >= HighQuality)

\* if len(high_quality_sources) < 3: the warning is logged
low_quality_warning(cc) == Len(high_quality_sources(cc)) < MinHighQuality

information_collection_finish(s, results) ==
    LET s60 == update_progress(s, "search results collected", 60)
        cc == AddAll(AddAll(AddAll(NewCollectedContent(s.topic.name),
                  results[BASIC_CONCEPT]), results[LATEST_TREND]),
                  results[EXPERT_OPINION])
        s80 == update_progress(s60, "content organised", 80)
    IN  IF cc.total_sources = 0
        THEN [state |-> add_error(s80, "collection: no information found"),
              update |-> [collected_content |-> <<>>, status |-> FAILED]]
        \* low_quality_warning(cc) only logs
        ELSE LET s73 == [s80 EXCEPT !.collected_content = <<cc>>]
             IN  IF ~HasAttr(cc, "practical_cases")
                 \* len(collected_content.practical_cases): AttributeError
                 THEN NodeExcept(s73, "collection: exception")
                 ELSE LET s82 == [s73 EXCEPT !.node_outputs =
                                      @ \cup {"information_collection"}]
                          s84 == update_progress(s82, "collection complete", 100)
                      IN  [state |-> s84,
                           update |-> [collected_content |-> <<cc>>,
                                       status |-> WRITING,
                                       current_step |-> "ready to write",
                                       progress_percentage |-> 100,
                                       node_outputs |-> s84.node_outputs]]

\* validate_content_for_writing reads total_sources and the four type lists
validate_content_for_writing(cc) ==
    IF ~HasAttr(cc, "practical_cases")
    THEN [raised |-> TRUE, is_sufficient |-> FALSE]
    ELSE [raised |-> FALSE, is_sufficient |-> ~(cc.total_sources < 3)]

\* create_content_summary reads the four type lists
create_content_summary(cc) ==
    [raised |-> ~HasAttr(cc, "practical_cases")]

RECURSIVE SumOver(_, _)
\* sum(quality_factors.values()), over the keys given
SumOver(f, keys) ==
    IF keys = {} THEN 0
    ELSE LET k == CHOOSE x \in keys : TRUE
         IN  f[k] + SumOver(f, keys \ {k})

\* a mean over one key fewer than the mapping holds
overall_quality_short(quality_factors) ==
    [num |-> SumOver(quality_factors, DOMAIN quality_factors),
     den |-> 10 * (Cardinality(DOMAIN quality_factors) - 1)]

\* sum(quality_factors.values()) / len(quality_factors): sub-scores are in
\* tenths, and the quotient is kept as the fraction num / den
overall_quality(quality_factors) ==
    [num |-> SumOver(quality_factors, DOMAIN quality_factors),
     den |-> 10 * Cardinality(DOMAIN quality_factors)]

validate_generated_article(a) ==
    LET word_count == a.word_count
        length == IF 1000 <= word_count /\ word_count <= 4000 THEN 10
                  ELSE IF \/ (500 <= word_count /\ word_count < 1000)
                          \/ (4000 < word_count /\ word_count <= 6000) THEN 7
                  ELSE 3
        sections_count == Len(a.sections)
        structure == IF 3 <= sections_count /\ sections_count <= 7 THEN 10
                     ELSE IF \/ (2 <= sections_count /\ sections_count < 3)
                             \/ (7 < sections_count /\ sections_count <= 10) THEN 7
                     ELSE 3
        metadata_score ==
              (IF a.title # EmptyStr /\ StrLen(a.title) > 5 THEN 3 ELSE 0)
            + (IF a.meta_tags # <<>> /\ Len(a.meta_tags) >= 3 THEN 3 ELSE 0)
            + (IF a.keywords # <<>> /\ Len(a.keywords) >= 3 THEN 2 ELSE 0)
            + (IF a.category # "" THEN 2 ELSE 0)
        image_count == Len(a.image_placeholders)
        expected_images == Max(1, sections_count \div 2)
        images == IF image_count >= expected_images THEN 10
                  ELSE IF image_count > 0 THEN 6
                  ELSE 2
        quality_factors == [length |-> length, structure |-> structure,
                            metadata |-> Min(10, metadata_score),
                            images |-> images]
    IN  [quality_score |-> overall_quality(quality_factors),
         factors |-> quality_factors,
         word_count |-> word_count,
         sections_count |-> sections_count,
         has_images |-> image_count > 0]

classify_category_simple(topic) ==
    LET topic_lower == {Lower(w) : w \in topic.words}
    IN  IF topic_lower \cap {"hanuiwon", "uiryo", "geongang", "chiryo"} # {}
           THEN "health"
        ELSE IF topic_lower \cap {"gisul", "gaebal", "ai", "programming"} # {}
           THEN "technology"
        ELSE IF topic_lower \cap {"business", "marketing", "changeop"} # {}
           THEN "business"
        ELSE "general"

\* f"{topic}<suffix>": a run whose c is a whole text stands for that text,
\* n being its length
TopicTitle(topic, suffix) ==
    Str(<<Run(topic.name, Len(topic.name)), Run(suffix, Len(suffix))>>)

H1Prefix == <<Run("#", 1), Run(" ", 1)>>      \* '# '
H2Prefix == <<Run("#", 2), Run(" ", 1)>>      \* '## '

RECURSIVE ExtractTitle_last(_, _)
\* a title loop that goes on after its first match
ExtractTitle_last(lines, topic) ==
    IF lines = <<>> THEN TopicTitle(topic, " complete guide")
    ELSE IF StartsWith(LineStrip(lines[Len(lines)]), H1Prefix)
         THEN Str(LineStrip(LineDrop(LineStrip(lines[Len(lines)]), 2)))
    ELSE ExtractTitle_last(SubSeq(lines, 1, Len(lines) - 1), topic)

RECURSIVE ExtractTitle(_, _)
\* the title loop of create_blog_article_from_content: the first line that
\* starts with '# ' once stripped gives the title, else the default stays
ExtractTitle(lines, topic) ==
    IF lines = <<>> THEN TopicTitle(topic, " complete guide")
    ELSE IF StartsWith(LineStrip(lines[1]), H1Prefix)
         THEN Str(LineStrip(LineDrop(LineStrip(lines[1]), 2)))
    ELSE ExtractTitle(Tail(lines), topic)

\* the section saved when a heading or the end of the text is met
SavedSection(sections, current_section, section_content) ==
    IF current_section # <<>> /\ current_section[1] # EmptyStr
    THEN Append(sections, BlogSection(current_section[1],
                                      StrStrip(section_content), "general", <<>>))
    ELSE sections

RECURSIVE ParseSections(_, _, _, _, _)
\* the section loop of create_blog_article_from_content from line i on
ParseSections(lines, i, sections, current_section, section_content) ==
    IF i > Len(lines)
    THEN SavedSection(sections, current_section, section_content)
    ELSE IF StartsWith(LineStrip(lines[i]), H2Prefix)
         THEN ParseSections(lines, i + 1,
                  SavedSection(sections, current_section, section_content),
                  <<Str(LineStrip(LineDrop(LineStrip(lines[i]), 3)))>>,
                  EmptyStr)
    ELSE ParseSections(lines, i + 1, sections, current_section,
                       StrConcat(section_content, <<lines[i], <<>>>>))

create_blog_article_from_content(text, topic) ==
    LET lines == text
        title == ExtractTitle(lines, topic)
        sections == ParseSections(lines, 1, <<>>, <<>>, EmptyStr)
        keywords == <<topic.name>> \o
                    (IF "hanuiwon" \in topic.words
                     THEN <<"hanuiwon", "hanbang chiryo", "geongang">> ELSE <<>>)
        a == BlogArticle(title, text, sections, Slice(keywords, 5),
                         Slice(keywords, 10), classify_category_simple(topic))
    IN  estimate_read_time(calculate_word_count(a))

\* the topics the metadata functions are given, by name: words holds the
\* words of the tables below that the topic contains, as they are written
MetadataTopics ==
    {[name |-> "coffee brewing", words |-> {}],
     [name |-> "AI geongang", words |-> {"AI", "geongang"}],
     [name |-> "yori", words |-> {"yori"}],
     [name |-> "yori gyoyuk yeonghwa", words |-> {"yori", "gyoyuk", "yeonghwa"}]}

TopicWords(name) == UNION {t.words : t \in {t \in MetadataTopics : t.name = name}}

RECURSIVE Repeat(_, _)
Repeat(c, n) == IF n = 0 THEN "" ELSE c \o Repeat(c, n - 1)

\* the text a run stands for
RunText(r) == IF r.c \in {"GA", "NA"} THEN Repeat(r.c, r.n) ELSE r.c

RECURSIVE HangulWordsFrom(_, _, _, _)
\* re.findall(r'[가-힣]{2,}', line) from run i on: a match is a maximal
\* stretch of Hangul syllables, kept when it holds two of them or more; word
\* is the stretch read so far and len its length
HangulWordsFrom(line, i, word, len) ==
    IF i > Len(line) THEN (IF len >= 2 THEN <<word>> ELSE <<>>)
    ELSE IF IsHangul(line[i].c)
         THEN HangulWordsFrom(line, i + 1, word \o RunText(line[i]),
                              len + line[i].n)
    ELSE (IF len >= 2 THEN <<word>> ELSE <<>>)
         \o HangulWordsFrom(line, i + 1, "", 0)

RECURSIVE HangulWords(_)
\* the matches in a text; a line break is not a Hangul syllable
HangulWords(text) ==
    IF text = <<>> THEN <<>>
    ELSE HangulWordsFrom(text[1], 1, "", 0) \o HangulWords(Tail(text))

RECURSIVE Flatten(_)
Flatten(seqs) == IF seqs = <<>> THEN <<>> ELSE seqs[1] \o Flatten(Tail(seqs))

\* Counter(all_words)[w]
CountIn(w, all_words) == Cardinality({i \in 1..Len(all_words) : all_words[i] = w})

RECURSIVE most_common(_, _)
\* Counter(all_words).most_common(): the distinct words by falling count,
\* words of one count in the order of their first occurrence
most_common(all_words, left) ==
    IF left = {} THEN <<>>
    ELSE LET top == {w \in left : \A v \in left :
                         CountIn(v, all_words) <= CountIn(w, all_words)}
             first == CHOOSE i \in 1..Len(all_words) :
                         /\ all_words[i] \in top
                         /\ \A j \in 1..(i - 1) : all_words[j] \notin top
         IN  <<all_words[first]>> \o most_common(all_words, left \ {all_words[first]})

extract_common_terms(texts) ==
    LET all_words == Flatten([i \in 1..Len(texts) |-> HangulWords(texts[i])])
        ranked == most_common(all_words, {all_words[i] : i \in 1..Len(all_words)})
    IN  SelectSeq(Slice(ranked, 10), LAMBDA w : CountIn(w, all_words) >= 2)

\* source.title + " " + source.summary
SourceText(source) ==
    StrConcat(StrConcat(source.title, Str(<<Run(" ", 1)>>)), source.summary)

\* the table of classify_category, in the order of the dict
category_keywords ==
    <<[category |-> "technology",
       keywords |-> <<"AI", "ingongjineung", "programming", "gaebal", "coding",
                      "software", "gisul", "IT">>],
      [category |-> "business",
       keywords |-> <<"business", "gyeongyeong", "marketing", "startup",
                      "changeop", "tuja", "gyeongje">>],
      [category |-> "lifestyle",
       keywords |-> <<"geongang", "undong", "yori", "yeohaeng", "chwimi",
                      "saenghwal", "fashion">>],
      [category |-> "education",
       keywords |-> <<"gyoyuk", "hakseup", "gongbu", "gangui", "sueop",
                      "gyosa", "haksaeng">>],
      [category |-> "entertainment",
       keywords |-> <<"game", "yeonghwa", "eumak", "drama", "yesul",
                      "munhwa">>]>>

DefaultCategory == "general"

Range(seq) == {seq[i] : i \in 1..Len(seq)}

\* the words of the texts, lowered: keyword in source_text holds when one of
\* them is the keyword
LoweredWords(texts) ==
    {Lower(r.c) : r \in UNION {Range(line) : line \in
                                  UNION {Range(text) : text \in Range(texts)}}}

RECURSIVE KeywordScore(_, _, _)
\* for keyword in keywords: 3 when it is in the topic, 1 when in the sources
KeywordScore(keywords, topic_lower, source_words) ==
    IF keywords = <<>> THEN 0
    ELSE (IF Lower(keywords[1]) \in topic_lower THEN 3 ELSE 0)
         + (IF Lower(keywords[1]) \in source_words THEN 1 ELSE 0)
         + KeywordScore(Tail(keywords), topic_lower, source_words)

RECURSIVE FirstMax(_, _, _)
\* max(category_scores, key=category_scores.get): the first key, in the order
\* of the dict, whose score no other key exceeds
FirstMax_last(score, i, best) ==
    IF i > Len(score) THEN best
    ELSE FirstMax(score, i + 1, IF score[i] >= score[best] THEN i ELSE best)

FirstMax(score, i, best) ==
    IF i > Len(score) THEN best
    ELSE FirstMax(score, i + 1, IF score[i] > score[best] THEN i ELSE best)

classify_category(topic, sources) ==
    LET topic_lower == {Lower(w) : w \in TopicWords(topic)}
        source_words ==
            LoweredWords([i \in 1..Len(sources) |-> SourceText(sources[i])])
        category_scores ==
            [i \in 1..Len(category_keywords) |->
                KeywordScore(category_keywords[i].keywords, topic_lower,
                             source_words)]
        best_category == FirstMax(category_scores, 2, 1)
    IN  IF category_scores[best_category] > 0
        THEN category_keywords[best_category].category
        ELSE DefaultCategory

RECURSIVE AppendTags(_, _)
\* a loop that appends every tag that is not a tag yet
AppendTags_uncapped(meta_tags, additional_tags) ==
    IF additional_tags = <<>> THEN meta_tags
    ELSE AppendTags(IF additional_tags[1] \notin Range(meta_tags)
                    THEN Append(meta_tags, additional_tags[1])
                    ELSE meta_tags,
                    Tail(additional_tags))

\* for tag in additional_tags: append it when it is not a tag yet and the
\* list holds fewer than 8
AppendTags(meta_tags, additional_tags) ==
    IF additional_tags = <<>> THEN meta_tags
    ELSE AppendTags(IF /\ additional_tags[1] \notin Range(meta_tags)
                       /\ Len(meta_tags) < 8
                    THEN Append(meta_tags, additional_tags[1])
                    ELSE meta_tags,
                    Tail(additional_tags))

enhance_article_metadata(a, collected_content) ==
    LET all_sources == get_all_sources(collected_content)
        common_terms ==
            extract_common_terms(
                [i \in 1..Len(all_sources) |-> SourceText(all_sources[i])])
        new_keywords ==
            SelectSeq(Slice(common_terms, 5),
                      LAMBDA term : term \notin Range(a.keywords))
        a1 == [a EXCEPT !.keywords = @ \o Slice(new_keywords, 3)]
        a2 == IF Len(a1.meta_tags) < 5
              THEN [a1 EXCEPT !.meta_tags =
                       AppendTags(@, <<collected_content.topic>> \o new_keywords)]
              ELSE a1
    IN  IF a2.category = DefaultCategory
        THEN [a2 EXCEPT !.category =
                 classify_category(collected_content.topic, all_sources)]
        ELSE a2

\* the answers the endpoint can give to the generation call: no answer, an
\* empty text, and a text with one '# ' line and two '## ' lines
LlmResponses ==
    {[outcome |-> "error", content |-> EmptyStr],
     [outcome |-> "ok", content |-> EmptyStr],
     [outcome |-> "ok", content |->
         << <<Run("#", 1), Run(" ", 1), Run("a", 2)>>,
            <<Run("#", 2), Run(" ", 1), Run("a", 1)>>,
            <<Run("GA", 300)>>,
            <<Run("#", 2), Run(" ", 1), Run("b", 1)>>,
            <<Run("NA", 300)>> >>]}

\* blog_writing_node; the quality check of the article only logs
blog_writing_node(s, response, has_key) ==
    IF s.collected_content = <<>>
    THEN NodeExcept(s, "writing: no collected content")
    ELSE
    LET cc == s.collected_content[1]
        s10 == update_progress(set_status(s, WRITING, "writing through the LLM"),
                               "writing", 10)
        s30 == update_progress(update_progress(s10, "content checked", 20),
                               "writing", 30)
        answer == search([topic |-> s.topic.name, suffix |-> "prompt", signal |-> FALSE],
                         1, response.outcome)
        blog_article ==
            enhance_article_metadata(
                create_blog_article_from_content(response.content, s.topic), cc)
        s95 == update_progress(update_progress(update_progress(s30,
                   "article generated", 70), "quality checked", 85),
                   "metadata enriched", 95)
        s94 == [s95 EXCEPT !.generated_article = <<blog_article>>,
                           !.node_outputs = @ \cup {"blog_writing"}]
        s100 == update_progress(s94, "writing complete", 100)
    IN  IF validate_content_for_writing(cc).raised
        THEN NodeExcept(s10, "writing: exception")
        ELSE IF get_perplexity_client(has_key).raised \/ create_content_summary(cc).raised
        THEN NodeExcept(s30, "writing: exception")
        ELSE IF answer.raised
        THEN NodeExcept(s30, "writing: exception")
        ELSE [state |-> s100,
              update |-> [generated_article |-> <<blog_article>>,
                          status |-> REVIEWING,
                          current_step |-> "waiting for review",
                          progress_percentage |-> 100,
                          node_outputs |-> s100.node_outputs]]

----------------------------------------------------------------------------
(* utils/llm_client.py: LLMClient *)

FallbackLimit == 1000     \* content[:1000] if len(content) > 1000

\* What the generation endpoint answers: text is the raw response, and json
\* is what json.loads makes of it: <<>> when the text is not JSON
\* (JSONDecodeError), else <<value>>. A value has a kind ("object", "array");
\* an object holds each key as an Optional, <<>> when the key is absent.
json_loads(response) ==
    IF response.json = <<>>
    THEN [raised |-> "JSONDecodeError", data |-> <<>>]
    ELSE [raised |-> "", data |-> response.json]

\* a fallback whose section holds the whole text
_create_fallback_article_whole(text, topic) ==
    LET sections == <<BlogSection(Str(<<Run("overview", 2)>>), text, "intro", <<>>)>>
        a == BlogArticle(TopicTitle(topic, " comprehensive guide"), text,
                         sections, <<topic.name>>, <<topic.name>>, "general")
    IN  estimate_read_time(calculate_word_count(a))

_create_fallback_article(text, topic) ==
    LET sections == <<BlogSection(Str(<<Run("overview", 2)>>),
                                  IF StrLen(text) > FallbackLimit
                                  THEN StrTake(text, FallbackLimit) ELSE text,
                                  "intro", <<>>)>>
        a == BlogArticle(TopicTitle(topic, " comprehensive guide"), text,
                         sections, <<topic.name>>, <<topic.name>>, "general")
    IN  estimate_read_time(calculate_word_count(a))

RECURSIVE SectionError(_)
\* the exception the section loop of _parse_blog_response raises, "" when
\* none: an element that is no object cannot be indexed by a key, and a
\* missing "title" or "content" is a KeyError
SectionError(section_list) ==
    IF section_list = <<>> THEN ""
    ELSE IF section_list[1].kind # "object" THEN "TypeError"
    ELSE IF section_list[1].title = <<>> \/ section_list[1].content = <<>>
         THEN "KeyError"
    ELSE SectionError(Tail(section_list))

RECURSIVE FullContent(_)
\* full_content after the section loop
FullContent(sections) ==
    IF sections = <<>> THEN EmptyStr
    ELSE StrConcat(FullContent(SubSeq(sections, 1, Len(sections) - 1)),
                   SectionMarkdown(sections[Len(sections)]))

\* a key read with data.get(key, default)
Get(data, key, default) == IF data[key] = <<>> THEN default ELSE data[key][1]

\* _parse_blog_response: raised names the exception that leaves the method,
\* "" when it returns
_parse_blog_response(response, topic) ==
    LET decoded == json_loads(response)
        data == decoded.data[1]
        section_list == Get(data, "sections", <<>>)
        sections == [i \in 1..Len(section_list) |->
                        BlogSection(section_list[i].title[1],
                                    section_list[i].content[1],
                                    Get(section_list[i], "section_type", "general"),
                                    section_list[i].image_placeholder)]
        image_placeholders ==
            LET with == SelectSeq(sections, LAMBDA x : x.image_placeholder # <<>>)
            IN  [i \in 1..Len(with) |-> with[i].image_placeholder[1]]
        a == [BlogArticle(Get(data, "title", TopicTitle(topic, " complete guide")),
                          StrStrip(FullContent(sections)), sections,
                          Get(data, "meta_tags", <<topic.name>>),
                          Get(data, "keywords", <<topic.name>>),
                          Get(data, "category", "general"))
                 EXCEPT !.image_placeholders = image_placeholders]
    IN  IF decoded.raised = "JSONDecodeError"
        THEN [raised |-> "",
              article |-> <<_create_fallback_article(response.text, topic)>>]
        ELSE IF data.kind # "object"
        THEN [raised |-> "AttributeError", article |-> <<>>]
        ELSE IF SectionError(section_list) # ""
        THEN [raised |-> SectionError(section_list), article |-> <<>>]
        ELSE [raised |-> "", article |-> <<estimate_read_time(calculate_word_count(a))>>]

\* _create_blog_writing_user_prompt reads the four type lists of the
\* collected content
_create_blog_writing_user_prompt(collected_content, topic) ==
    [raised |-> IF HasAttr(collected_content, "practical_cases")
                THEN "" ELSE "AttributeError"]

\* generate_blog_article: whatever is raised on the way is logged and raised
\* again; calls counts the calls to the endpoint
generate_blog_article(collected_content, topic, response) ==
    LET prompt == _create_blog_writing_user_prompt(collected_content, topic)
        parsed == _parse_blog_response(response, topic)
    IN  IF prompt.raised # ""
        THEN [raised |-> prompt.raised, article |-> <<>>, calls |-> 0]
        ELSE [raised |-> parsed.raised, article |-> parsed.article, calls |-> 1]

----------------------------------------------------------------------------
(* main.py: the workflow graph and the driver *)

Nodes == {"information_collection", "blog_writing"}

\* a graph whose writing stage leads back to collection
StaticEdges_cyclic ==
    {<<"information_collection", "blog_writing">>, <<"blog_writing", END>>,
     <<"blog_writing", "information_collection">>}

\* workflow.add_edge(...)
StaticEdges ==
    {<<"information_collection", "blog_writing">>, <<"blog_writing", END>>}

should_continue_to_writing(s) ==
    IF s.status = FAILED THEN END
    ELSE IF s.collected_content # <<>> /\ s.collected_content[1].total_sources > 0
         THEN "blog_writing"
    ELSE END

should_complete_workflow(s) ==
    IF s.status = FAILED THEN END
    ELSE IF s.generated_article # <<>> THEN END
    ELSE END

\* workflow.add_conditional_edges(...)
Branch(n, s) ==
    IF n = "information_collection" THEN should_continue_to_writing(s)
    ELSE should_complete_workflow(s)

\* What the compiled graph runs after node n has written its update: the
\* targets of n's static edges and the target its branch chose; a node
\* triggered by both runs once, and the run ends when only END is left.
NextNode(n, s) ==
    LET targets == {e[2] : e \in {d \in StaticEdges : d[1] = n}} \cup {Branch(n, s)}
        runnable == targets \ {END}
    IN  IF runnable = {} THEN END ELSE CHOOSE x \in runnable : TRUE

\* run_blog_automation: the loop over the streamed node outputs, which sets
\* every key of a node's update on the final state
MergeUpdate(s, u) ==
    [k \in DOMAIN s |-> IF k \in DOMAIN u THEN u[k] ELSE s[k]]

\* final bookkeeping that marks every run completed
finalize_run_unguarded(s, outputs) ==
    set_status([s EXCEPT !.completed_at = <<"now">>],
               COMPLETED, "blog automation complete")

\* a final bookkeeping that stamps the end of every run
finalize_run_stamping(s, outputs) ==
    LET final_state == IF outputs = 0
                       THEN set_status(s, FAILED, "workflow failed")
                       ELSE s
    IN  IF final_state.status # FAILED
        THEN set_status([final_state EXCEPT !.completed_at = <<"now">>],
                        COMPLETED, "blog automation complete")
        ELSE [final_state EXCEPT !.completed_at = <<"now">>]

\* run_blog_automation after the stream has ended
finalize_run(s, outputs) ==
    LET final_state == IF outputs = 0
                       THEN set_status(s, FAILED, "workflow failed")
                       ELSE s
    IN  IF final_state.status # FAILED
        THEN set_status([final_state EXCEPT !.completed_at = <<"now">>],
                        COMPLETED, "blog automation complete")
        ELSE final_state

----------------------------------------------------------------------------
(* The run as a state machine *)

\* the state a node is handed: a copy of the run state
Private(s) == [s EXCEPT !.status_writes = <<>>, !.progress_writes = <<>>]

Logged(s) == [s EXCEPT !.status_writes = <<>>]

Outputs == executed["information_collection"] + executed["blog_writing"]

AllTasksDone == \A i \in 1..Len(tasks) : tasks[i] # "pending"

IdleContent == NewCollectedContent("")

\* no article is under test and no function has been called on its own
IdleFunctions ==
    /\ article = <<>>
    /\ history = <<>>
    /\ call = [fn |-> ""]
    /\ result = <<>>

Init ==
    /\ pc = "ready"
    /\ next = "information_collection"
    /\ run \in {NewBlogState(t) : t \in Topics}
    /\ node = <<>>
    /\ update = <<>>
    /\ stage = ""
    /\ entry = <<>>
    /\ queries = <<>>
    /\ tasks = <<>>
    /\ search_results = <<>>
    /\ statusLog = <<PENDING>>
    /\ executed = [n \in Nodes |-> 0]
    /\ credential \in BOOLEAN
    /\ llm_response \in LlmResponses
    /\ content = IdleContent
    /\ lastSource = <<>>
    /\ prevContent = IdleContent
    /\ completed = <<>>
    /\ IdleFunctions

\* the engine enters information_collection_node, which runs to its await
CollectBegin ==
    /\ pc = "ready"
    /\ next = "information_collection"
    /\ executed["information_collection"] < MaxExec
    /\ LET r == information_collection_begin(Private(run), credential)
       IN  /\ node' = <<Logged(r.state)>>
           /\ update' = r.update
           /\ queries' = r.search_queries
           /\ tasks' = [i \in 1..Len(r.search_queries) |-> "pending"]
           /\ statusLog' = statusLog \o r.state.status_writes
           /\ pc' = IF r.awaiting THEN "multi_search" ELSE "returned"
    /\ stage' = "information_collection"
    /\ entry' = <<run>>
    /\ executed' = [executed EXCEPT !["information_collection"] = @ + 1]
    /\ search_results' = <<>>
    /\ completed' = <<>>
    /\ UNCHANGED <<next, run, credential, llm_response, content, lastSource,
                   prevContent,
                   fnVars>>

\* a query task that puts what has arrived so far into the shared mapping
TaskComplete_sharing(i, outcome) ==
    /\ pc \in {"multi_search", "search_only"}
    /\ i \in 1..Len(tasks)
    /\ tasks[i] = "pending"
    /\ tasks' = [tasks EXCEPT ![i] = outcome]
    /\ completed' = Append(completed, i)
    /\ search_results' =
           <<multi_search(queries, [tasks EXCEPT ![i] = outcome])>>
    /\ UNCHANGED <<pc, next, run, node, update, stage, entry, queries,
                   statusLog, executed, credential,
                   llm_response, content, lastSource, prevContent,
                   fnVars>>

\* the endpoint answers one dispatched query, or the call fails
TaskComplete(i, outcome) ==
    /\ pc \in {"multi_search", "search_only"}
    /\ i \in 1..Len(tasks)
    /\ tasks[i] = "pending"
    /\ tasks' = [tasks EXCEPT ![i] = outcome]
    /\ completed' = Append(completed, i)
    /\ UNCHANGED <<pc, next, run, node, update, stage, entry, queries,
                   search_results, statusLog, executed, credential,
                   llm_response, content, lastSource, prevContent,
                   fnVars>>

\* gather returns: multi_search sorts the results and the node runs to its end
CollectFinish ==
    /\ pc = "multi_search"
    /\ AllTasksDone
    /\ LET ms == multi_search(queries, tasks)
           r == IF ms.raised
                THEN NodeExcept(node[1], "collection: exception")
                ELSE information_collection_finish(node[1], ms.results)
       IN  /\ search_results' = <<ms>>
           /\ node' = <<Logged(r.state)>>
           /\ update' = <<r.update>>
           /\ statusLog' = statusLog \o r.state.status_writes
    /\ pc' = "returned"
    /\ UNCHANGED <<next, run, stage, entry, queries, tasks, executed,
                   credential, llm_response, content, lastSource, prevContent,
                   completed, fnVars>>

\* the engine enters blog_writing_node, which runs to its end
BlogWriting ==
    /\ pc = "ready"
    /\ next = "blog_writing"
    /\ executed["blog_writing"] < MaxExec
    /\ LET r == blog_writing_node(Private(run), llm_response, credential)
       IN  /\ node' = <<Logged(r.state)>>
           /\ update' = <<r.update>>
           /\ statusLog' = statusLog \o r.state.status_writes
    /\ stage' = "blog_writing"
    /\ entry' = <<run>>
    /\ executed' = [executed EXCEPT !["blog_writing"] = @ + 1]
    /\ pc' = "returned"
    /\ UNCHANGED <<next, run, queries, tasks, search_results, credential,
                   llm_response, content, lastSource, prevContent,
                   completed, fnVars>>

\* the node's update is merged into the run state and the graph is routed
Merge ==
    /\ pc = "returned"
    /\ LET u == update[1]
           merged == MergeUpdate(run, u)
           target == NextNode(stage, merged)
       IN  /\ run' = merged
           /\ statusLog' = IF "status" \in DOMAIN u
                           THEN Append(statusLog, u.status) ELSE statusLog
           /\ next' = target
           /\ pc' = IF target = END THEN "finalize" ELSE "ready"
    /\ UNCHANGED <<node, update, stage, entry, queries, tasks, search_results,
                   executed, credential, llm_response, content, lastSource,
                   prevContent,
                   completed, fnVars>>

\* the stream has ended: the driver's final bookkeeping
Finalize ==
    /\ pc = "finalize"
    /\ LET f == finalize_run(run, Outputs)
       IN  /\ run' = Logged(f)
           /\ statusLog' = statusLog \o f.status_writes
    /\ pc' = "done"
    /\ UNCHANGED <<next, node, update, stage, entry, queries, tasks,
                   search_results, executed, credential, llm_response, content,
                   lastSource, prevContent,
                   completed, fnVars>>

Next ==
    \/ CollectBegin
    \/ \E i \in 1..Len(tasks), outcome \in {"ok", "error"} : TaskComplete(i, outcome)
    \/ CollectFinish
    \/ BlogWriting
    \/ Merge
    \/ Finalize

Spec == Init /\ [][Next]_vars

FairSpec == Spec /\ WF_vars(Next)

----------------------------------------------------------------------------
(* blog_writing_node invoked on its own, on any state a caller can hand it *)

PlainTopic == CHOOSE x \in Topics : ~x.signal

SampleSource(t, n) ==
    [url |-> n, title |-> [query |-> QueryText(PlainTopic, "sample"), n |-> n],
     credibility_score |-> HighQuality, content_type |-> t]

SampleContents ==
    {AddAll(NewCollectedContent(PlainTopic.name), srcs) : srcs \in
        {<<SampleSource(BASIC_CONCEPT, 1)>>,
         <<SampleSource(BASIC_CONCEPT, 1), SampleSource(LATEST_TREND, 1),
           SampleSource(EXPERT_OPINION, 1)>>,
         <<SampleSource(BASIC_CONCEPT, 1), SampleSource(BASIC_CONCEPT, 2),
           SampleSource(LATEST_TREND, 1), SampleSource(LATEST_TREND, 2),
           SampleSource(EXPERT_OPINION, 1)>>}}

EarlierError == [timestamped |-> TRUE, message |-> "earlier error"]

NodeInputs ==
    {[NewBlogState(PlainTopic) EXCEPT
          !.status = st, !.collected_content = cc,
          !.errors = [i \in 1..n |-> EarlierError]] :
        st \in WorkflowStatus,
        cc \in {<<>>} \cup {<<c>> : c \in SampleContents},
        n \in 0..MaxInitErrors}

InitNode ==
    /\ pc = "ready"
    /\ next = "blog_writing"
    /\ run \in NodeInputs
    /\ node = <<>>
    /\ update = <<>>
    /\ stage = ""
    /\ entry = <<>>
    /\ queries = <<>>
    /\ tasks = <<>>
    /\ search_results = <<>>
    /\ statusLog = <<run.status>>
    /\ executed = [n \in Nodes |-> 0]
    /\ credential \in BOOLEAN
    /\ llm_response \in LlmResponses
    /\ content = IdleContent
    /\ lastSource = <<>>
    /\ prevContent = IdleContent
    /\ completed = <<>>
    /\ IdleFunctions

NextNodeOnly ==
    \/ BlogWriting
    \/ Merge

SpecNode == InitNode /\ [][NextNodeOnly]_vars

----------------------------------------------------------------------------
(* multi_search called on its own with any list of queries *)

SampleQueries ==
    {[query |-> QueryText(PlainTopic, "sample"),
      content_type |-> t, max_results |-> m] :
        t \in ContentType, m \in {1, 4}}

QueryLists == UNION {[1..n -> SampleQueries] : n \in 0..MaxQueries}

InitSearch ==
    /\ pc = "search_only"
    /\ next = END
    /\ run = NewBlogState(PlainTopic)
    /\ node = <<>>
    /\ update = <<>>
    /\ stage = ""
    /\ entry = <<>>
    /\ queries \in QueryLists
    /\ tasks = [i \in 1..Len(queries) |-> "pending"]
    /\ search_results = <<>>
    /\ statusLog = <<PENDING>>
    /\ executed = [n \in Nodes |-> 0]
    /\ credential = TRUE
    /\ llm_response \in {r \in LlmResponses : r.outcome = "error"}
    /\ content = IdleContent
    /\ lastSource = <<>>
    /\ prevContent = IdleContent
    /\ completed = <<>>
    /\ IdleFunctions

\* gather returns and multi_search hands its mapping to the caller
MultiSearchReturn ==
    /\ pc = "search_only"
    /\ AllTasksDone
    /\ search_results' = <<multi_search(queries, tasks)>>
    /\ pc' = "search_returned"
    /\ UNCHANGED <<next, run, node, update, stage, entry, queries, tasks,
                   statusLog, executed, credential, llm_response, content,
                   lastSource, prevContent,
                   completed, fnVars>>

NextSearch ==
    \/ \E i \in 1..Len(tasks), outcome \in {"ok", "error"} : TaskComplete(i, outcome)
    \/ MultiSearchReturn

SpecSearch == InitSearch /\ [][NextSearch]_vars

----------------------------------------------------------------------------
(* a CollectedContent under any sequence of add_source calls *)

SampleSources ==
    {SampleSource(t, n) : t \in ContentType, n \in {1, 2}}

InitContent ==
    /\ pc = "content_only"
    /\ next = END
    /\ run = NewBlogState(PlainTopic)
    /\ node = <<>>
    /\ update = <<>>
    /\ stage = ""
    /\ entry = <<>>
    /\ queries = <<>>
    /\ tasks = <<>>
    /\ search_results = <<>>
    /\ statusLog = <<PENDING>>
    /\ executed = [n \in Nodes |-> 0]
    /\ credential = TRUE
    /\ llm_response \in {r \in LlmResponses : r.outcome = "error"}
    /\ content = NewCollectedContent(PlainTopic.name)
    /\ lastSource = <<>>
    /\ prevContent = content
    /\ completed = <<>>
    /\ IdleFunctions

AddSource(source) ==
    /\ pc = "content_only"
    /\ Len(get_all_sources(content)) < MaxInsertions
    /\ content' = add_source(content, source)
    /\ lastSource' = <<source>>
    /\ prevContent' = content
    /\ UNCHANGED <<pc, next, run, node, update, stage, entry, queries, tasks,
                   search_results, statusLog, executed, credential, llm_response,
                   completed, fnVars>>

NextContent == \E source \in SampleSources : AddSource(source)

SpecContent == InitContent /\ [][NextContent]_vars

----------------------------------------------------------------------------
(* functions and objects exercised on their own: the run is idle *)

runVars == <<pc, next, run, node, update, stage, entry, queries, tasks,
             search_results, statusLog, executed, credential, llm_response,
             content, lastSource, prevContent, completed>>

IdleRun(position) ==
    /\ pc = position
    /\ next = END
    /\ run = NewBlogState(PlainTopic)
    /\ node = <<>>
    /\ update = <<>>
    /\ stage = ""
    /\ entry = <<>>
    /\ queries = <<>>
    /\ tasks = <<>>
    /\ search_results = <<>>
    /\ statusLog = <<PENDING>>
    /\ executed = [n \in Nodes |-> 0]
    /\ credential = TRUE
    /\ llm_response \in {r \in LlmResponses : r.outcome = "error"}
    /\ content = IdleContent
    /\ lastSource = <<>>
    /\ prevContent = IdleContent
    /\ completed = <<>>

----------------------------------------------------------------------------
(* a BlogArticle under any sequence of its three methods *)

\* "", 299 syllables and one word, a heading line over 600 syllables, "a7 bbb"
SampleBodies ==
    {EmptyStr,
     Str(<<Run("GA", 299), Run(" ", 1), Run("a", 2)>>),
     <<<<Run("#", 1), Run(" ", 1), Run("a", 1)>>, <<Run("NA", 600)>>>>,
     Str(<<Run("a", 1), Run("7", 1), Run(" ", 1), Run("b", 3)>>)}

SampleSections ==
    {BlogSection(Str(<<Run("a", 2)>>), Str(<<Run("GA", 300)>>), "concept", <<>>),
     BlogSection(Str(<<Run("NA", 1)>>),
                 <<<<Run("a", 1), Run(" ", 1), Run("b", 1)>>,
                   <<Run("7", 1), Run("a", 1)>>>>,
                 "case", <<"[image]">>)}

InitArticle ==
    /\ IdleRun("article_only")
    /\ article \in {<<BlogArticle(Str(<<Run("a", 6)>>), body, <<>>, <<>>, <<>>,
                                  "general")>> : body \in SampleBodies}
    /\ history = <<>>
    /\ call = [fn |-> ""]
    /\ result = <<>>

\* one method call on the article
Method(name, after) ==
    /\ pc = "article_only"
    /\ Len(history) < MaxCalls
    /\ article' = <<after>>
    /\ history' = Append(history, [call |-> name, article |-> after])
    /\ UNCHANGED <<runVars, call, result>>

ArticleAddSection(section) ==
    Method("add_section", add_section(article[1], section))

ArticleCalculateWordCount ==
    Method("calculate_word_count", calculate_word_count(article[1]))

ArticleEstimateReadTime ==
    Method("estimate_read_time", estimate_read_time(article[1]))

NextArticle ==
    \/ \E section \in SampleSections : ArticleAddSection(section)
    \/ ArticleCalculateWordCount
    \/ ArticleEstimateReadTime

SpecArticle == InitArticle /\ [][NextArticle]_vars

----------------------------------------------------------------------------
(* the functions of nodes/blog_writing.py called on their own *)

PlainSection == BlogSection(Str(<<Run("a", 2)>>), EmptyStr, "general", <<>>)

\* articles on both sides of every threshold of validate_generated_article
ScoredArticles ==
    {[BlogArticle(title, EmptyStr, [i \in 1..n |-> PlainSection],
                  [i \in 1..m |-> "tag"], [i \in 1..k |-> "keyword"], category)
         EXCEPT !.word_count = w,
                !.image_placeholders = [i \in 1..p |-> "[image]"]] :
        title \in {EmptyStr, Str(<<Run("a", 5)>>), Str(<<Run("a", 6)>>)},
        n \in {0, 2, 3, 7, 8, 10, 11},
        m \in {2, 3}, k \in {2, 3}, category \in {"", "general"},
        w \in {0, 499, 500, 999, 1000, 4000, 4001, 6000, 6001},
        p \in {0, 1, 3, 5}}

WritingTopics ==
    Topics \cup {[name |-> "clinic ai", signal |-> FALSE,
                  words |-> {"hanuiwon", "ai"}]}

\* "# aa", "  # GA ", "## a", " ##  b ", "### a", "## ", "#a", "a b", ""
SampleLines ==
    {<<Run("#", 1), Run(" ", 1), Run("a", 2)>>,
     <<Run(" ", 2), Run("#", 1), Run(" ", 1), Run("GA", 1), Run(" ", 1)>>,
     <<Run("#", 2), Run(" ", 1), Run("a", 1)>>,
     <<Run(" ", 1), Run("#", 2), Run(" ", 2), Run("b", 1), Run(" ", 1)>>,
     <<Run("#", 3), Run(" ", 1), Run("a", 1)>>,
     <<Run("#", 2), Run(" ", 1)>>,
     <<Run("#", 1), Run("a", 1)>>,
     <<Run("a", 1), Run(" ", 1), Run("b", 1)>>,
     <<>>}

\* the texts of up to MaxLines sample lines
SampleTexts == UNION {[1..n -> SampleLines] : n \in 1..MaxLines}

Space == Run(" ", 1)

\* a line that holds six words of the category table, each once
SixWords ==
    <<Run("geongang", 2), Space, Run("undong", 2), Space, Run("yori", 2), Space,
      Run("gisul", 2), Space, Run("gaebal", 2), Space, Run("gyoyuk", 2)>>

\* sources whose titles and summaries repeat words, join two words into
\* one, hold a single syllable, an ASCII word, and a summary of two lines
MetadataSources ==
    {[title |-> Str(<<Run("geongang", 2), Space, Run("undong", 2)>>),
      summary |-> Str(SixWords), content_type |-> BASIC_CONCEPT],
     [title |-> Str(<<Run("gisul", 2)>>),
      summary |-> Str(SixWords), content_type |-> LATEST_TREND],
     [title |-> Str(<<Run("geongang", 2), Run("undong", 2)>>),
      summary |-> Str(<<Run("GA", 1), Space, Run("AI", 2), Space, Run("NA", 3)>>),
      content_type |-> EXPERT_OPINION],
     [title |-> Str(<<Run("a", 2)>>),
      summary |-> EmptyStr, content_type |-> BASIC_CONCEPT],
     [title |-> Str(<<Run("yeonghwa", 2)>>),
      summary |-> <<<<Run("yeonghwa", 2)>>,
                    <<Run("yeonghwa", 2), Run("GA", 2), Space, Run("NA", 3)>>>>,
      content_type |-> LATEST_TREND]}

\* the aggregates of up to MaxSources of them, for every sample topic
MetadataContents ==
    {AddAll(NewCollectedContent(t.name), srcs) :
        t \in MetadataTopics,
        srcs \in UNION {[1..n -> MetadataSources] : n \in 0..MaxSources}}

\* articles with no, one and four keywords, with tag lists on both sides of
\* the two limits, and with and without the default category
MetadataArticles ==
    {BlogArticle(Str(<<Run("a", 6)>>), EmptyStr, <<>>, tags, keywords, category) :
        tags \in {<<>>, <<"t1", "t2", "t3", "t4">>,
                  <<"AI geongang", "geongang", "t3", "t4">>,
                  <<"t1", "t2", "t3", "t4", "t5">>,
                  <<"t1", "t2", "t3", "t4", "t5", "t6", "t7", "t8", "t9">>},
        keywords \in {<<>>, <<"geongang">>,
                      <<"geongang", "undong", "gisul", "yori">>},
        category \in {DefaultCategory, "health"}}

WritingCalls ==
    {[fn |-> "validate_generated_article", article |-> a] : a \in ScoredArticles}
    \cup
    {[fn |-> "enhance_article_metadata", article |-> a, collected_content |-> cc] :
        a \in MetadataArticles, cc \in MetadataContents}
    \cup
    {[fn |-> "create_blog_article_from_content", content |-> text, topic |-> t] :
        text \in SampleTexts, t \in WritingTopics}

InitWriting ==
    /\ IdleRun("function_only")
    /\ article = <<>>
    /\ history = <<>>
    /\ call \in WritingCalls
    /\ result = <<>>

\* the called function returns
Return(fn, value) ==
    /\ pc = "function_only"
    /\ call.fn = fn
    /\ result = <<>>
    /\ result' = <<value>>
    /\ UNCHANGED <<runVars, article, history, call>>

ValidateGeneratedArticle ==
    /\ call.fn = "validate_generated_article"
    /\ Return("validate_generated_article",
              validate_generated_article(call.article))

CreateBlogArticleFromContent ==
    /\ call.fn = "create_blog_article_from_content"
    /\ Return("create_blog_article_from_content",
              create_blog_article_from_content(call.content, call.topic))

EnhanceArticleMetadata ==
    /\ call.fn = "enhance_article_metadata"
    /\ Return("enhance_article_metadata",
              enhance_article_metadata(call.article, call.collected_content))

NextWriting ==
    \/ ValidateGeneratedArticle
    \/ CreateBlogArticleFromContent
    \/ EnhanceArticleMetadata

SpecWriting == InitWriting /\ [][NextWriting]_vars

----------------------------------------------------------------------------
(* the methods of PerplexityClient called on their own *)

\* what __init__ stores in the client
GatewayClients == {[api_key |-> "key-1"], [api_key |-> "key-2"]}

\* source stubs: the url holds 0..MaxTrustedHits entries of trusted_domains
\* ("https://blog.naver.com/x" holds two), the title is longer than 10
\* characters or not, and holds a quality-signal substring or not
SampleStubs ==
    {[url |-> 0, trusted_hits |-> h, title |-> [query |-> "", n |-> 0],
      title_long |-> long, title_signal |-> signal] :
        h \in 0..MaxTrustedHits, long \in BOOLEAN, signal \in BOOLEAN}

SearchOutcomes == {"ok", "transport_error", "status_error"}

GatewayCalls ==
    {[fn |-> "_calculate_credibility", client |-> c, source_data |-> stub] :
        c \in GatewayClients, stub \in SampleStubs}
    \cup
    {[fn |-> "search", client |-> c, query |-> QueryText(t, "sample"),
      max_results |-> m, outcome |-> o] :
        c \in GatewayClients, t \in Topics, m \in {0, 1, 3, 5},
        o \in SearchOutcomes}
    \cup
    {[fn |-> "create_search_queries", client |-> c, topic |-> t] :
        c \in GatewayClients, t \in Topics}

InitGateway ==
    /\ IdleRun("function_only")
    /\ article = <<>>
    /\ history = <<>>
    /\ call \in GatewayCalls
    /\ result = <<>>

CalculateCredibility ==
    /\ call.fn = "_calculate_credibility"
    /\ Return("_calculate_credibility", _calculate_credibility(call.source_data))

Search ==
    /\ call.fn = "search"
    /\ Return("search", search(call.query, call.max_results, call.outcome))

CreateSearchQueries ==
    /\ call.fn = "create_search_queries"
    /\ Return("create_search_queries", create_search_queries(call.topic))

NextGateway ==
    \/ CalculateCredibility
    \/ Search
    \/ CreateSearchQueries

SpecGateway == InitGateway /\ [][NextGateway]_vars

----------------------------------------------------------------------------
(* the methods of LLMClient called on their own *)

\* raw texts that are not JSON, of 0, 4, 999, 1000 and 1001 characters, and
\* of two lines with the 1000th character in the second line, at the line
\* break, and at the end of the first line
RawTexts ==
    {EmptyStr,
     Str(<<Run("#", 1), Run(" ", 1), Run("a", 2)>>),
     Str(<<Run("GA", 999)>>),
     Str(<<Run("GA", 1000)>>),
     Str(<<Run("GA", 1001)>>),
     <<<<Run("a", 600)>>, <<Run("GA", 600)>>>>,
     <<<<Run("a", 999)>>, <<Run("b", 5)>>>>,
     <<<<Run("a", 1000)>>, <<Run("b", 5)>>>>}

JsonSection(title, text) ==
    [kind |-> "object", title |-> title, content |-> text,
     section_type |-> <<>>, image_placeholder |-> <<"[image]">>]

JsonObject(title, sections) ==
    [kind |-> "object", title |-> title, sections |-> sections,
     meta_tags |-> <<>>, keywords |-> <<>>, category |-> <<>>]

\* decoded values: an article of two sections, an object without sections, a
\* section without title, a section without content, a section that is a
\* string, and a top-level array
JsonValues ==
    {JsonObject(<<Str(<<Run("a", 8)>>)>>,
                <<<<JsonSection(<<Str(<<Run("a", 2)>>)>>, <<Str(<<Run("GA", 700)>>)>>),
                    JsonSection(<<Str(<<Run("b", 2)>>)>>, <<Str(<<Run("NA", 700)>>)>>)>>>>),
     JsonObject(<<>>, <<>>),
     JsonObject(<<>>, <<<<JsonSection(<<>>, <<Str(<<Run("GA", 700)>>)>>)>>>>),
     JsonObject(<<>>, <<<<JsonSection(<<Str(<<Run("a", 2)>>)>>, <<>>)>>>>),
     JsonObject(<<>>, <<<<[kind |-> "string"]>>>>),
     [kind |-> "array"]}

LlmAnswers ==
    {[text |-> t, json |-> <<>>] : t \in RawTexts}
    \cup {[text |-> Str(<<Run("json", 900)>>), json |-> <<v>>] : v \in JsonValues}

LlmCalls ==
    {[fn |-> "_parse_blog_response", response |-> r, topic |-> t] :
        r \in LlmAnswers, t \in Topics}
    \cup
    {[fn |-> "generate_blog_article", collected_content |-> cc, topic |-> t,
      response |-> r] :
        cc \in SampleContents, t \in Topics, r \in LlmAnswers}

InitLlm ==
    /\ IdleRun("function_only")
    /\ article = <<>>
    /\ history = <<>>
    /\ call \in LlmCalls
    /\ result = <<>>

ParseBlogResponse ==
    /\ call.fn = "_parse_blog_response"
    /\ Return("_parse_blog_response",
              _parse_blog_response(call.response, call.topic))

GenerateBlogArticle ==
    /\ call.fn = "generate_blog_article"
    /\ Return("generate_blog_article",
              generate_blog_article(call.collected_content, call.topic,
                                    call.response))

NextLlm ==
    \/ ParseBlogResponse
    \/ GenerateBlogArticle

SpecLlm == InitLlm /\ [][NextLlm]_vars

----------------------------------------------------------------------------
(* Properties *)

Returned(n) == stage = n /\ pc = "returned"

\* the node's update has been merged and nothing has run since
Merged(n) == stage = n /\ pc \in {"ready", "finalize"} /\ update # <<>>

ReturnedSources ==
    LET m == search_results[1].results
    IN  Len(m[BASIC_CONCEPT]) + Len(m[LATEST_TREND]) + Len(m[EXPERT_OPINION])

\* C1: whenever multi_search returned at least one source, the update of
\* information_collection_node carries the collected content, status writing
\* and progress 100, and the node added no error.
C1_CollectionSucceeds ==
    (Returned("information_collection") /\ search_results # <<>> /\ ReturnedSources > 0)
    => LET u == update[1]
       IN  /\ "collected_content" \in DOMAIN u
           /\ u.collected_content # <<>>
           /\ u.status = WRITING
           /\ "progress_percentage" \in DOMAIN u
           /\ u.progress_percentage = 100
           /\ "errors" \notin DOMAIN u
           /\ node[1].errors = entry[1].errors

\* C2: blog_writing_node is entered only on a run state that is not failed
\* and holds a collected content with at least one source.
C2_WritingOnlyAfterCollection ==
    stage = "blog_writing"
    => /\ entry[1].status # FAILED
       /\ entry[1].collected_content # <<>>
       /\ entry[1].collected_content[1].total_sources > 0

\* C3: when blog_writing_node is entered with a collected content and the
\* endpoint answers the generation call, the returned update sets
\* generated_article and a status other than failed.
C3_WritingProducesArticle ==
    (Returned("blog_writing") /\ entry[1].collected_content # <<>>
        /\ credential /\ llm_response.outcome = "ok")
    => LET u == update[1]
       IN  /\ "generated_article" \in DOMAIN u
           /\ u.generated_article # <<>>
           /\ u.status # FAILED

\* C4: after the update of a stage that failed has been merged, the run
\* status is failed and the run's error list is one timestamped entry longer
\* than when the stage was entered.
C4_FailureAddsOneError ==
    (\E n \in Nodes : Merged(n)) /\ node[1].status = FAILED
    => /\ run.status = FAILED
       /\ Len(run.errors) = Len(entry[1].errors) + 1
       /\ run.errors[Len(run.errors)].timestamped

RECURSIVE ExpectedCount(_, _)
\* the sources the successful queries of type t among the first i delivered
ExpectedCount(t, i) ==
    IF i = 0 THEN 0
    ELSE ExpectedCount(t, i - 1) +
         (IF tasks[i] = "ok" /\ queries[i].content_type = t
          THEN Min(queries[i].max_results, SearchSourceCap) ELSE 0)

\* C6: multi_search never raises; under each content type its result holds
\* the sources of exactly the successful queries of that type, a failed
\* query contributes nothing, and when every query failed every list is empty.
C6_PartialResults ==
    pc = "search_returned"
    => LET ms == search_results[1]
       IN  /\ ~ms.raised
           /\ DOMAIN ms.results = ContentType
           /\ \A t \in ContentType :
                /\ Len(ms.results[t]) = ExpectedCount(t, Len(queries))
                /\ \A k \in 1..Len(ms.results[t]) :
                     /\ ms.results[t][k].content_type = t
                     /\ \E i \in 1..Len(queries) :
                          /\ tasks[i] = "ok"
                          /\ queries[i].content_type = t
                          /\ ms.results[t][k].title.query = queries[i].query
                          /\ ms.results[t][k].title.n <= queries[i].max_results
           /\ \A i \in 1..Len(queries) :
                tasks[i] = "ok" =>
                  \A n \in 1..Min(queries[i].max_results, SearchSourceCap) :
                     \E k \in 1..Len(ms.results[queries[i].content_type]) :
                        ms.results[queries[i].content_type][k].title =
                            [query |-> queries[i].query, n |-> n]
           /\ (\A i \in 1..Len(queries) : tasks[i] = "error")
                => \A t \in ContentType : ms.results[t] = <<>>

\* some queries failed, others succeeded, and multi_search has returned
C6_Witness ==
    /\ pc = "search_returned"
    /\ \E i, j \in 1..Len(queries) : tasks[i] = "ok" /\ tasks[j] = "error"
    /\ \E t \in ContentType : search_results[1].results[t] # <<>>

TypeList(cc, t) ==
    IF t = BASIC_CONCEPT THEN cc.basic_concepts
    ELSE IF t = LATEST_TREND THEN cc.latest_trends
    ELSE cc.expert_opinions

\* C7: after every add_source, total_sources is the sum of the lengths of
\* the three lists, and the source was appended at the end of the list of its
\* content type and of no other.
C7_TotalIsSum ==
    /\ content.total_sources =
           Len(content.basic_concepts) + Len(content.latest_trends)
           + Len(content.expert_opinions)
    /\ lastSource # <<>> =>
           \A t \in ContentType :
               TypeList(content, t) =
                   IF lastSource[1].content_type = t
                   THEN Append(TypeList(prevContent, t), lastSource[1])
                   ELSE TypeList(prevContent, t)

\* sources of two types have been inserted, three in all
C7_Witness ==
    /\ lastSource # <<>>
    /\ content.basic_concepts # <<>>
    /\ content.latest_trends # <<>>
    /\ content.total_sources = MaxInsertions

Rank(st) ==
    IF st = PENDING THEN 1
    ELSE IF st = COLLECTING THEN 2
    ELSE IF st = WRITING THEN 3
    ELSE IF st = REVIEWING THEN 4
    ELSE IF st = COMPLETED THEN 5
    ELSE 0

\* C8: the statuses assigned over a run only move forward along pending,
\* collecting, writing, reviewing, completed, and failed is entered only from
\* collecting or writing.
C8_StatusMovesForward ==
    \A i \in 1..(Len(statusLog) - 1) :
        LET a == statusLog[i]
            b == statusLog[i + 1]
        IN  /\ (a # FAILED /\ b # FAILED) => Rank(a) <= Rank(b)
            /\ (a # FAILED /\ b = FAILED) => a \in {COLLECTING, WRITING}

\* a run has ended whose status went from collecting to failed
C8_Witness ==
    /\ pc = "done"
    /\ \E i \in 1..(Len(statusLog) - 1) :
           statusLog[i] = COLLECTING /\ statusLog[i + 1] = FAILED

\* C9: once failed or completed has been assigned, every later assignment of
\* the run (by a stage entered afterwards, a merged update or the final
\* bookkeeping) assigns the same status.
C9_TerminalAbsorbing ==
    \A i \in 1..Len(statusLog) : \A j \in i..Len(statusLog) :
        statusLog[i] \in {FAILED, COMPLETED} => statusLog[j] = statusLog[i]

\* the run failed in collection, the writing stage was entered afterwards,
\* its update was merged and the final bookkeeping has run
C9_Witness ==
    /\ pc = "done"
    /\ executed["blog_writing"] = 1
    /\ run.status = FAILED
    /\ \E i \in 1..(Len(statusLog) - 1) : statusLog[i] = FAILED

\* C10: every run ends, no stage runs more than once, and a run that has
\* ended has status completed or failed.
C10_Terminates ==
    /\ <>(pc = "done")
    /\ [](\A n \in Nodes : executed[n] <= 1)
    /\ [](pc = "done" => run.status \in {COMPLETED, FAILED})

\* a run has ended after both stages ran
C10_Witness ==
    /\ pc = "done"
    /\ executed["information_collection"] = 1
    /\ executed["blog_writing"] = 1

\* C11: after every sequence of add_section, calculate_word_count and
\* estimate_read_time calls on an article, word_count is the count computed
\* from the current body text and estimated_read_time is
\* max(1, word_count / 300 rounded down).
C11_CountsFollowBody ==
    (pc = "article_only" /\ history # <<>>)
    => LET a == article[1]
       IN  /\ a.word_count = korean_chars(a.content) + english_words(a.content)
           /\ a.estimated_read_time = Max(1, a.word_count \div ReadRate)

\* C12: when calculate_word_count and estimate_read_time are run twice in a
\* row on an article, word_count and estimated_read_time after the second
\* run are what they were after the first.
C12_RecomputeIdempotent ==
    \A i \in 1..(Len(history) - 3) :
        (/\ history[i].call = "calculate_word_count"
         /\ history[i + 1].call = "estimate_read_time"
         /\ history[i + 2].call = "calculate_word_count"
         /\ history[i + 3].call = "estimate_read_time")
        => /\ history[i + 3].article.content = history[i + 1].article.content
           /\ history[i + 3].article.word_count = history[i + 1].article.word_count
           /\ history[i + 3].article.estimated_read_time
                  = history[i + 1].article.estimated_read_time

\* the two runs have happened on a body that a section was added to and
\* that reads in more than a minute
C12_Witness ==
    /\ Len(history) = 5
    /\ history[1].call = "add_section"
    /\ history[2].call = "calculate_word_count"
    /\ history[3].call = "estimate_read_time"
    /\ history[4].call = "calculate_word_count"
    /\ history[5].call = "estimate_read_time"
    /\ article[1].word_count >= 2 * ReadRate
    /\ article[1].estimated_read_time >= 2

Returns(fn) == pc = "function_only" /\ call.fn = fn /\ result # <<>>

\* C13: the quality_score that validate_generated_article returns is the
\* arithmetic mean of exactly four sub-scores, length, structure, metadata
\* and images, each between 0 and 1, and so lies between 0 and 1.
C13_QualityScoreIsMean ==
    Returns("validate_generated_article")
    => LET r == result[1]
           f == r.factors
       IN  /\ DOMAIN f = {"length", "structure", "metadata", "images"}
           /\ \A k \in DOMAIN f : 0 <= f[k] /\ f[k] <= 10
           /\ r.quality_score.den = 4 * 10
           /\ r.quality_score.num = f.length + f.structure + f.metadata + f.images
           /\ 0 <= r.quality_score.num
           /\ r.quality_score.num <= r.quality_score.den

\* an article with every sub-score at 1 and one with every sub-score at its
\* lowest have been scored
C13_Witness ==
    /\ Returns("validate_generated_article")
    /\ \/ result[1].quality_score.num = 40
       \/ result[1].quality_score.num = 3 + 3 + 0 + 2

\* C14: _calculate_credibility returns min(1.0, 0.5, plus 0.2 when the url
\* holds at least one trusted-domain entry (once, however many it holds),
\* plus 0.1 when the title is longer than 10 characters and holds a
\* quality-signal substring, plus 0.1); the result depends on the stub alone
\* and lies between 0 and 1.
C14_CredibilityFormula ==
    Returns("_calculate_credibility")
    => LET stub == call.source_data
           sum == 5 + (IF stub.trusted_hits >= 1 THEN 2 ELSE 0)
                    + (IF stub.title_long /\ stub.title_signal THEN 1 ELSE 0)
                    + 1
       IN  /\ result[1] = (IF sum > 10 THEN 10 ELSE sum)
           /\ 0 <= result[1]
           /\ result[1] <= 10

\* a stub whose url holds several trusted-domain entries and whose title
\* earns the bonus has been scored
C14_Witness ==
    /\ Returns("_calculate_credibility")
    /\ call.source_data.trusted_hits >= 2
    /\ call.source_data.title_long
    /\ call.source_data.title_signal
    /\ result[1] = 9

\* C18: every invocation of search makes exactly one call to the endpoint;
\* when the transport fails or the endpoint answers with a non-success
\* status, search raises that failure to its caller after that one call.
C18_OneCallNoRetry ==
    Returns("search")
    => /\ result[1].posts = 1
       /\ call.outcome # "ok" => (result[1].raised /\ result[1].error = call.outcome)
       /\ call.outcome = "ok" => ~result[1].raised

\* a search whose endpoint answered with a non-success status has returned
C18_Witness ==
    /\ Returns("search")
    /\ call.outcome = "status_error"
    /\ result[1].raised

\* C19: for every topic create_search_queries returns exactly three queries,
\* in this order: basic_concept with max_results 3, latest_trend with
\* max_results 4, expert_opinion with max_results 3; the text of each starts
\* with the topic, and nothing but the topic enters the result.
C19_ThreeFixedQueries ==
    Returns("create_search_queries")
    => LET qs == result[1]
       IN  /\ Len(qs) = 3
           /\ qs[1].content_type = BASIC_CONCEPT /\ qs[1].max_results = 3
           /\ qs[2].content_type = LATEST_TREND /\ qs[2].max_results = 4
           /\ qs[3].content_type = EXPERT_OPINION /\ qs[3].max_results = 3
           /\ \A i \in 1..3 : qs[i].query.topic = call.topic.name
           /\ \A i, j \in 1..3 : i # j => qs[i].query.suffix # qs[j].query.suffix

\* the queries of a topic have been created
C19_Witness ==
    /\ Returns("create_search_queries")
    /\ call.topic.name = "coffee brewing"
    /\ Len(result[1]) = 3

\* the level of the heading that a line is once stripped (0: no heading),
\* and the text after the marker
HeadingLevel(line) ==
    LET k == IF line # <<>> /\ line[1].c = " " THEN 2 ELSE 1
    IN  IF Len(line) >= k + 2 /\ line[k].c = "#" /\ line[k + 1].c = " "
        THEN line[k].n ELSE 0

HeadingText(line) ==
    LET k == IF line[1].c = " " THEN 2 ELSE 1
        e == IF line[Len(line)].c = " " THEN Len(line) - 1 ELSE Len(line)
    IN  <<SubSeq(line, k + 2, e)>>

\* C15: create_blog_article_from_content yields exactly one BlogSection per
\* '## ' heading line, in order of appearance, and a title that is the text
\* of the first '# ' heading line when there is one and the fallback title
\* built from the topic otherwise.
C15_SectionsFollowHeadings ==
    Returns("create_blog_article_from_content")
    => LET a == result[1]
           h1 == SelectSeq(call.content, LAMBDA l : HeadingLevel(l) = 1)
           h2 == SelectSeq(call.content, LAMBDA l : HeadingLevel(l) = 2)
       IN  /\ Len(a.sections) = Len(h2)
           /\ \A i \in 1..Len(h2) : a.sections[i].title = HeadingText(h2[i])
           /\ a.title = IF h1 # <<>> THEN HeadingText(h1[1])
                        ELSE <<<<Run(call.topic.name, Len(call.topic.name)),
                                 Run(" complete guide", 15)>>>>

\* a text with one '# ' line and two '## ' lines has been parsed into two
\* sections and the extracted title
C15_Witness ==
    /\ Returns("create_blog_article_from_content")
    /\ Len(SelectSeq(call.content, LAMBDA l : HeadingLevel(l) = 1)) = 1
    /\ Len(SelectSeq(call.content, LAMBDA l : HeadingLevel(l) = 2)) = 2
    /\ Len(result[1].sections) = 2
    /\ result[1].sections[1].title # result[1].sections[2].title
    /\ result[1].title \in {<<<<Run("a", 2)>>>>, <<<<Run("GA", 1)>>>>}

\* p is the text s cut after some character
IsStrPrefix(p, s) ==
    /\ Len(p) <= Len(s)
    /\ \A i \in 1..(Len(p) - 1) : p[i] = s[i]
    /\ StartsWith(s[Len(p)], p[Len(p)])

\* C16: when the response is not valid JSON, _parse_blog_response does not
\* raise: it returns an article with exactly one section, whose body is the
\* first 1000 characters of the raw text, the whole text when it is shorter.
C16_FallbackOnInvalidJson ==
    (Returns("_parse_blog_response") /\ call.response.json = <<>>)
    => /\ result[1].raised = ""
       /\ result[1].article # <<>>
       /\ LET a == result[1].article[1]
              text == call.response.text
          IN  /\ Len(a.sections) = 1
              /\ IsStrPrefix(a.sections[1].content, text)
              /\ StrLen(a.sections[1].content)
                     = (IF StrLen(text) < 1000 THEN StrLen(text) ELSE 1000)

\* a raw text of more than 1000 characters over two lines has been parsed
C16_Witness ==
    /\ Returns("_parse_blog_response")
    /\ call.response.json = <<>>
    /\ Len(call.response.text) = 2
    /\ StrLen(call.response.text) > 1000
    /\ StrLen(result[1].article[1].sections[1].content) = 1000

\* the decoded value matches the article schema: an object whose sections
\* are objects with a title and a content
MatchesSchema(v) ==
    /\ v.kind = "object"
    /\ \A i \in 1..Len(Get(v, "sections", <<>>)) :
           LET sd == v.sections[1][i]
           IN  sd.kind = "object" /\ sd.title # <<>> /\ sd.content # <<>>

Malformed(response) ==
    response.json = <<>> \/ ~MatchesSchema(response.json[1])

\* C17: for every malformed response, one that does not decode as JSON or
\* decodes to something that is not an article, parsing returns the fallback
\* article of one section, and neither _parse_blog_response nor
\* generate_blog_article raises.
C17_MalformedRecovered ==
    ((Returns("_parse_blog_response") \/ Returns("generate_blog_article"))
        /\ Malformed(call.response))
    => /\ result[1].raised = ""
       /\ result[1].article # <<>>
       /\ Len(result[1].article[1].sections) = 1

RECURSIVE SourcesInOrder(_, _)
\* the sources of the queries of content type t, one query after the other
\* in the order given (a sequence of query indices)
SourcesInOrder(order, t) ==
    IF order = <<>> THEN <<>>
    ELSE (IF queries[order[1]].content_type = t
          THEN _search_with_type(queries[order[1]], tasks[order[1]]).sources
          ELSE <<>>)
         \o SourcesInOrder(Tail(order), t)

\* C20 as stated: in the result of multi_search the sources of a content
\* type stand in the order in which their queries completed.
C20_CompletionOrder ==
    pc = "search_returned"
    => \A t \in ContentType :
           search_results[1].results[t] = SourcesInOrder(completed, t)

\* C20: in the result of multi_search the sources of a content type stand in
\* the order of their queries in the list given to multi_search, whatever
\* the order in which the queries completed.
C20_QueryOrder ==
    pc = "search_returned"
    => \A t \in ContentType :
           search_results[1].results[t]
               = SourcesInOrder([i \in 1..Len(queries) |-> i], t)

\* two queries of one content type with different sources both succeeded,
\* the later one completed first, and multi_search has returned
C20_Witness ==
    /\ pc = "search_returned"
    /\ \E i, j \in 1..Len(queries) :
          /\ i < j
          /\ queries[i].content_type = queries[j].content_type
          /\ queries[i].max_results # queries[j].max_results
          /\ tasks[i] = "ok" /\ tasks[j] = "ok"
          /\ \E a, b \in 1..Len(completed) :
                a < b /\ completed[a] = j /\ completed[b] = i

\* percentages on both sides of the range of update_progress
SamplePercentages == {-5, 0, 50, 100, 150}

\* C21: the progress percentage of the run state is always an integer in
\* 0..100, update_progress stores a value in 0..100 whatever its argument,
\* and within one execution of a stage every progress update sets a value
\* greater than or equal to the one the stage set before.
C21_ProgressBounded ==
    /\ run.progress_percentage \in 0..100
    /\ \A p \in SamplePercentages :
           update_progress(run, "step", p).progress_percentage \in 0..100
    /\ node # <<>> =>
           /\ node[1].progress_percentage \in 0..100
           /\ \A i \in 1..Len(node[1].progress_writes) :
                  node[1].progress_writes[i] \in 0..100
           /\ \A i \in 1..(Len(node[1].progress_writes) - 1) :
                  node[1].progress_writes[i] <= node[1].progress_writes[i + 1]

\* the collection stage has returned after four progress updates
C21_Witness ==
    /\ Returned("information_collection")
    /\ Len(node[1].progress_writes) = 4
    /\ node[1].progress_percentage = 80

\* C22: a step in which a query task completes leaves the shared results
\* mapping and the stage's state, its CollectedContent included, as they
\* were; the mapping is filled only in a step taken when every dispatched
\* query has completed, and the collection stage holds an aggregate only
\* once the mapping has been returned.
C22_NoSharedWrites ==
    [][/\ tasks' # tasks /\ pc = "multi_search" =>
              UNCHANGED <<search_results, node, update, run>>
       /\ search_results' # search_results /\ search_results' # <<>> =>
              AllTasksDone /\ UNCHANGED tasks
       /\ /\ stage' = "information_collection"
          /\ node' # <<>>
          /\ node'[1].collected_content # <<>>
          => search_results' # <<>> /\ AllTasksDone]_vars

\* one query has answered while another is still running, and neither the
\* mapping nor the aggregate has been written
C22_Witness ==
    /\ pc = "multi_search"
    /\ \E i, j \in 1..Len(tasks) : tasks[i] = "ok" /\ tasks[j] = "pending"
    /\ search_results = <<>>
    /\ node[1].collected_content = <<>>

\* the words that occur at least twice in the titles and summaries of the
\* sources of an aggregate
RepeatedWords(cc) ==
    LET sources == get_all_sources(cc)
        words == Flatten([i \in 1..Len(sources) |->
                             HangulWords(SourceText(sources[i]))])
    IN  {w \in Range(words) : CountIn(w, words) >= 2}

\* what a call appended to a list
Appended(before, after) == SubSeq(after, Len(before) + 1, Len(after))

IsExtension(before, after) ==
    /\ Len(before) <= Len(after)
    /\ SubSeq(after, 1, Len(before)) = before

Distinct(seq) == \A i, j \in 1..Len(seq) : i # j => seq[i] # seq[j]

\* C23: one call of enhance_article_metadata appends at most 3 terms to
\* keywords, none of which was already a keyword; it appends to meta_tags
\* only the topic and repeated words that were not keywords, none of them
\* already a tag; and a meta_tags list that it grows holds at most 8 entries.
C23_MetadataBounded ==
    Returns("enhance_article_metadata") =>
        LET a == call.article
            r == result[1]
            new_terms == RepeatedWords(call.collected_content) \ Range(a.keywords)
            kw == Appended(a.keywords, r.keywords)
            tags == Appended(a.meta_tags, r.meta_tags)
        IN  /\ IsExtension(a.keywords, r.keywords)
            /\ Len(kw) <= 3
            /\ Range(kw) \subseteq new_terms
            /\ Distinct(kw)
            /\ IsExtension(a.meta_tags, r.meta_tags)
            /\ Range(tags) \subseteq
                   ({call.collected_content.topic} \cup new_terms)
                   \ Range(a.meta_tags)
            /\ Distinct(tags)
            /\ tags # <<>> => Len(r.meta_tags) <= 8

\* a call that found more than three new terms and stopped at the eighth tag
C23_Witness ==
    /\ Returns("enhance_article_metadata")
    /\ Cardinality(RepeatedWords(call.collected_content)
                   \ Range(call.article.keywords)) > 3
    /\ Len(result[1].keywords) = Len(call.article.keywords) + 3
    /\ Len(call.article.meta_tags) = 4
    /\ Len(result[1].meta_tags) = 8

\* the score of the i-th category of the table for a topic and sources
CategoryScore(i, topic, sources) ==
    LET keywords == Range(category_keywords[i].keywords)
        in_topic == {k \in keywords : \E w \in TopicWords(topic) : Lower(w) = Lower(k)}
        in_sources == {k \in keywords :
                          \E s \in Range(sources) :
                              \E line \in Range(SourceText(s)) :
                                  \E x \in Range(line) : Lower(x.c) = Lower(k)}
    IN  3 * Cardinality(in_topic) + Cardinality(in_sources)

\* the category the table gives: the first one of the highest score, or the
\* default one when no category scores
TableCategory(topic, sources) ==
    LET n == Len(category_keywords)
    IN  IF \A i \in 1..n : CategoryScore(i, topic, sources) = 0
        THEN DefaultCategory
        ELSE category_keywords[
                 CHOOSE i \in 1..n :
                     /\ \A j \in 1..n : CategoryScore(j, topic, sources)
                                        <= CategoryScore(i, topic, sources)
                     /\ \A j \in 1..(i - 1) : CategoryScore(j, topic, sources)
                                              < CategoryScore(i, topic, sources)
             ].category

\* C24: enhance_article_metadata changes the category only when it is the
\* default one, and then assigns the category of the table with the highest
\* score (3 for each keyword found in the topic, 1 for each found in the
\* source text), the earliest one on a tie, and the default category when
\* every score is zero.
C24_CategoryByScore ==
    Returns("enhance_article_metadata") =>
        LET a == call.article
            cc == call.collected_content
        IN  result[1].category =
                IF a.category = DefaultCategory
                THEN TableCategory(cc.topic, get_all_sources(cc))
                ELSE a.category

\* a call that chose between two categories of one score, neither the first
\* of the table
C24_Witness ==
    /\ Returns("enhance_article_metadata")
    /\ call.article.category = DefaultCategory
    /\ LET cc == call.collected_content
           score == [i \in 1..Len(category_keywords) |->
                        CategoryScore(i, cc.topic, get_all_sources(cc))]
       IN  /\ score[1] < score[3]
           /\ score[3] = score[5]
           /\ score[3] > 0
    /\ result[1].category = "lifestyle"

C26_AllSourcesHighQuality ==
    /\ search_results # <<>> =>
           \A t \in ContentType :
               \A src \in Range(search_results[1].results[t]) :
                   src.credibility_score \in 6..9
    /\ /\ stage = "information_collection"
       /\ node # <<>>
       /\ node[1].collected_content # <<>>
       => LET cc == node[1].collected_content[1]
          IN  /\ high_quality_sources(cc) = get_all_sources(cc)
              /\ low_quality_warning(cc) <=> cc.total_sources < 3

\* the stage has organised sources of both scores the stubs can get
C26_Witness ==
    /\ Returned("information_collection")
    /\ node[1].collected_content # <<>>
    /\ \E a, b \in Range(get_all_sources(node[1].collected_content[1])) :
           a.credibility_score = 6 /\ b.credibility_score = 7

\* the sources of the returned mapping that the i-th query contributed
Contributed(i) ==
    SelectSeq(search_results[1].results[queries[i].content_type],
              LAMBDA src : src.title.query = queries[i].query)

\* C27: every query that succeeded contributes exactly min(max_results, 3)
\* sources and every other query none, so the three queries of the
\* collection stage return 0, 3, 6 or 9 sources in total and no content type
\* holds more than 3, in the mapping and in the aggregate of the stage.
C27_SourceCounts ==
    search_results # <<>> =>
        /\ \A i \in 1..Len(queries) :
               Len(Contributed(i)) =
                   IF tasks[i] = "ok" THEN Min(queries[i].max_results, 3) ELSE 0
        /\ ReturnedSources \in {0, 3, 6, 9}
        /\ \A t \in ContentType : Len(search_results[1].results[t]) <= 3
        /\ /\ stage = "information_collection"
           /\ node # <<>>
           /\ node[1].collected_content # <<>>
           => LET cc == node[1].collected_content[1]
              IN  /\ cc.total_sources = ReturnedSources
                  /\ Len(cc.basic_concepts) <= 3
                  /\ Len(cc.latest_trends) <= 3
                  /\ Len(cc.expert_opinions) <= 3

\* the latest_trend query, which asks for 4 results, succeeded while another
\* query failed, and 6 sources were returned
C27_Witness ==
    /\ search_results # <<>>
    /\ stage = "information_collection"
    /\ \E i \in 1..Len(queries) :
           /\ queries[i].max_results = 4
           /\ tasks[i] = "ok"
           /\ Len(Contributed(i)) = 3
    /\ \E i \in 1..Len(queries) : tasks[i] # "ok"
    /\ ReturnedSources = 6

====
